---- MODULE Spec2Model ----
(***************************************************************************)
(* Verification model of damselfly: the DistinctBlockCounter statistics    *)
(* state machine, the MemoryCache temporal cache and the host commands     *)
(* that share one Option<DamselflyViewer> behind a mutex.                  *)
(***************************************************************************)
EXTENDS FiniteSets, Integers, Sequences, TLC

(***************************************************************************)
(* Bounds of the model.                                                    *)
(***************************************************************************)
\* pool handed to DistinctBlockCounter::new as memory_bounds
PoolStart == 2
PoolStop == 6
\* addresses and sizes of the pushed updates
MaxAddr == 5
MaxSize == 2
\* number of push_update calls explored
MaxPushes == 3
\* MemoryCache: length of the event list, cache interval, block size, and
\* how far past the last event a query may ask
MaxEvents == 3
MaxInterval == 2
MaxBlockSize == 2
MaxBeyond == 1
\* host: number of initialise_viewer calls, and the block size a viewer is
\* loaded with
MaxLoads == 2
LoadedBlockSize == 1
\* handlers: events an instance hands to a command, paddings of a call
MaxHistory == 2
MaxPadding == 2
\* compressor: length of the update list
MaxCompress == 3
\* channel-fed viewer: operations on the viewer, instructions waiting in the
\* channel, units of a shift; DEFAULT_TIMESPAN (100 in consts.rs) scaled down
MaxSteps == 7
MaxQueued == 2
MaxUnits == 1
MaxInstructions == 3
MaxLog == 2
DEFAULT_TIMESPAN == 2

VARIABLES
    \* ---- DistinctBlockCounter (distinct_block_counter.rs:10-23)
    start, stop, left_padding, right_padding, manually_track_memory_bounds,
    starts_set, ends_set, starts_tree, ends_tree,
    distinct_blocks, free_blocks, free_space,
    \* ---- the trace pushed so far
    live,             \* allocations of the trace not yet freed
    disjoint_trace,   \* live allocations never overlapped, every Free matched
    in_pool_trace,    \* every pushed update lay inside [PoolStart, PoolStop)
    pushes,           \* number of push_update calls so far
    before_push,      \* the last update and the counter just before it was
                      \* pushed, while the trace is disjoint; <<>> otherwise
    \* ---- MemoryCache (memory_cache.rs:9-13)
    memory_cache_snapshots, update_intervals, interval,
    requested_block_size,  \* block size of the last (re)build
    rebuilt,               \* change_block_size has been called
    query_timestamp, query_result,  \* the last query_cache call and its result
    \* ---- host (main.rs:10-12)
    viewer,        \* AppState.viewer: the Option<DamselflyViewer> in the mutex
    lock_holder,   \* command thread holding the mutex, 0 when it is free
    poisoned,      \* a thread panicked while holding the mutex
    pc, cmd, ret,  \* per command thread: position, command in flight, last return
    built,         \* per thread: the viewer initialise_viewer built, not yet installed
    loads,         \* number of viewers built so far
    \* ---- one call of query_block[_realtime] or get_operation_log (main.rs)
    handler_call,    \* the command, what the instance returned, the paddings
    handler_result,  \* what the command returned
    \* ---- one call of an UpdateQueueCompressor function
    compress_call, compress_result,
    \* ---- the channel-fed DamselflyViewer (src/damselfly_viewer.rs:22-31)
    timespan, timespan_is_unlocked,
    memory_usage_snapshots,  \* the length of the vector
    instruction_rx,          \* instructions waiting in the channel, oldest first
    operation_history,       \* the operations logged so far
    memory_map,              \* address -> <<status, callstack>>
    program,                 \* the traced program at the sending end: the
                             \* operations it performs and how many it emits
    hung_up,                 \* the sender is dropped
    build,                   \* "debug" or "release": overflow panics or wraps
    viewer_panicked,         \* an operation on the viewer panicked
    follows,                 \* lock_timespan was called and the span stayed locked
    follows_updates,         \* updates received since such a lock_timespan that found
                             \* a snapshot, with no gulp_channel and no
                             \* shift_timespan_to_beginning since; -1 otherwise
    shifted_left,            \* <<time span before, units>> when the last operation
                             \* was a shift_timespan_left that returned, else <<>>
    found_hung_up,           \* the last operation was an update that found the
                             \* channel hung up
    steps,                   \* operations on the viewer so far
    \* ---- the DamselflyViewer over a GraphViewer and a MapViewer
    \* (src-tauri/src/damselfly/viewer/damselfly_viewer.rs:14-17)
    graph_viewer, map_viewer,
    map_call,                \* the last operation when it returned a map: the
                             \* operation, its timestamp argument, the map
    stats                    \* the call of get_free_blocks_stats: its position
                             \* and its locals

counterVars == <<start, stop, left_padding, right_padding, manually_track_memory_bounds,
                 starts_set, ends_set, starts_tree, ends_tree,
                 distinct_blocks, free_blocks, free_space,
                 live, disjoint_trace, in_pool_trace, pushes, before_push>>

cacheVars == <<memory_cache_snapshots, update_intervals, interval,
               requested_block_size, rebuilt, query_timestamp, query_result>>

hostVars == <<viewer, lock_holder, poisoned, pc, cmd, ret, built, loads>>

handlerVars == <<handler_call, handler_result>>

compressorVars == <<compress_call, compress_result>>

channelVars == <<timespan, timespan_is_unlocked, memory_usage_snapshots,
                 instruction_rx, operation_history, memory_map, program,
                 hung_up, build, viewer_panicked,
                 follows, follows_updates, shifted_left, found_hung_up, steps>>

viewersVars == <<graph_viewer, map_viewer, map_call, stats>>

vars == <<counterVars, cacheVars, hostVars, handlerVars, compressorVars, channelVars,
         viewersVars>>

(***************************************************************************)
(* Helpers.                                                                *)
(***************************************************************************)
Min(a, b) == IF a < b THEN a ELSE b
Max(a, b) == IF a > b THEN a ELSE b

\* width of usize, scaled down; usize::MAX is the largest value
UsizeMax == 255

saturating_sub(a, b) == IF a >= b THEN a - b ELSE 0
saturating_add(a, b) == Min(a + b, UsizeMax)

\* ascending iteration of a BTreeSet
RECURSIVE SortedSeq(_)
SortedSeq(S) ==
    IF S = {} THEN <<>>
    ELSE LET m == CHOOSE x \in S : \A y \in S : x <= y
         IN <<m>> \o SortedSeq(S \ {m})

RECURSIVE SumSeq(_)
SumSeq(s) == IF s = <<>> THEN 0 ELSE Head(s) + SumSeq(Tail(s))

(***************************************************************************)
(* Memory updates.                                                         *)
(***************************************************************************)
Updates == [kind : {"Allocation", "Free"}, address : 0..MaxAddr, size : 1..MaxSize]

get_start(update) == update.address
get_end(update) == update.address + update.size

(***************************************************************************)
(* DistinctBlockCounter                                                    *)
(***************************************************************************)
\* the two-pointer loop of calculate_free_blocks: i, j are the positions of
\* cur_start and cur_end, blocks the list built so far, space the bytes
\* added to free_space so far
\* variant: the adjacent case (start = end) is treated as a gap
RECURSIVE free_blocks_loop_emit_adjacent(_, _, _, _, _, _)
free_blocks_loop_emit_adjacent(ss, es, i, j, blocks, space) ==
    IF i > Len(ss) \/ j > Len(es) THEN [blocks |-> blocks, space |-> space]
    ELSE IF ss[i] < es[j]
         THEN free_blocks_loop_emit_adjacent(ss, es, i + 1, j, blocks, space)
    ELSE free_blocks_loop_emit_adjacent(ss, es, i, j + 1,
                                        Append(blocks, <<es[j], ss[i]>>),
                                        space + (ss[i] - es[j]))

\* variant: a start equal to the current end is skipped like a smaller one
RECURSIVE free_blocks_loop_skips_equal_start(_, _, _, _, _, _)
free_blocks_loop_skips_equal_start(ss, es, i, j, blocks, space) ==
    IF i > Len(ss) \/ j > Len(es) THEN [blocks |-> blocks, space |-> space]
    ELSE IF ss[i] <= es[j]
         THEN free_blocks_loop_skips_equal_start(ss, es, i + 1, j, blocks, space)
    ELSE free_blocks_loop_skips_equal_start(ss, es, i, j + 1,
                                            Append(blocks, <<es[j], ss[i]>>),
                                            space + (ss[i] - es[j]))

RECURSIVE free_blocks_loop(_, _, _, _, _, _)
free_blocks_loop(ss, es, i, j, blocks, space) ==
    IF i > Len(ss) \/ j > Len(es) THEN [blocks |-> blocks, space |-> space]
    ELSE IF ss[i] < es[j] THEN free_blocks_loop(ss, es, i + 1, j, blocks, space)
    ELSE IF ss[i] = es[j] THEN free_blocks_loop(ss, es, i, j + 1, blocks, space)
    ELSE free_blocks_loop(ss, es, i, j + 1,
                          Append(blocks, <<es[j], ss[i]>>),
                          space + (ss[i] - es[j]))

\* calculate_free_blocks: the new free_blocks and the new free_space
calculate_free_blocks(s_tree, e_tree, space) ==
    free_blocks_loop(SortedSeq(s_tree), SortedSeq(e_tree), 1, 1, <<>>, space)

\* size of the block max_by selects (the last of the largest)
LargestFreeBlockSize(blocks) ==
    LET sizes == {blocks[k][2] - blocks[k][1] : k \in DOMAIN blocks}
    IN CHOOSE m \in sizes : \A n \in sizes : n <= m

get_free_segment_fragmentation(blocks, space) ==
    IF blocks = <<>> THEN 0
    ELSE saturating_sub(space \div LargestFreeBlockSize(blocks), 1)

\* variant: an allocation that glues two blocks leaves the count alone
block_delta_glue_ignored(update, left_attached, right_attached) ==
    IF update.kind = "Allocation"
    THEN (IF ~left_attached /\ ~right_attached THEN 1 ELSE 0)
    ELSE (IF left_attached /\ right_attached THEN 1
          ELSE IF ~left_attached /\ ~right_attached THEN -1 ELSE 0)

\* variant: a free that splits a block leaves the count alone
block_delta_split_ignored(update, left_attached, right_attached) ==
    IF update.kind = "Allocation"
    THEN (IF left_attached /\ right_attached THEN -1
          ELSE IF ~left_attached /\ ~right_attached THEN 1 ELSE 0)
    ELSE (IF ~left_attached /\ ~right_attached THEN -1 ELSE 0)

block_delta(update, left_attached, right_attached) ==
    IF update.kind = "Allocation"
    THEN (IF left_attached /\ right_attached THEN -1
          ELSE IF ~left_attached /\ ~right_attached THEN 1 ELSE 0)
    ELSE (IF left_attached /\ right_attached THEN 1
          ELSE IF ~left_attached /\ ~right_attached THEN -1 ELSE 0)

\* u128::saturating_add_signed
saturating_add_signed(d, delta) == IF d + delta < 0 THEN 0 ELSE d + delta

\* variant: the sentinel edges are inserted the other way round
new_sentinels_swapped(lp, rp, bounds) ==
    /\ start = (IF bounds = <<>> THEN UsizeMax ELSE bounds[1])
    /\ stop = (IF bounds = <<>> THEN 0 ELSE bounds[2])
    /\ left_padding = lp
    /\ right_padding = rp
    /\ manually_track_memory_bounds = TRUE
    /\ starts_set = {start}
    /\ ends_set = {stop}
    /\ starts_tree = {start}
    /\ ends_tree = {stop}
    /\ distinct_blocks = 0
    /\ free_blocks = <<>>
    /\ free_space = 0

\* variant: only the sentinel at the end of the pool is inserted
new_one_sentinel(lp, rp, bounds) ==
    /\ start = (IF bounds = <<>> THEN UsizeMax ELSE bounds[1])
    /\ stop = (IF bounds = <<>> THEN 0 ELSE bounds[2])
    /\ left_padding = lp
    /\ right_padding = rp
    /\ manually_track_memory_bounds = TRUE
    /\ starts_set = {stop}
    /\ ends_set = {}
    /\ starts_tree = {stop}
    /\ ends_tree = {}
    /\ distinct_blocks = 0
    /\ free_blocks = <<>>
    /\ free_space = 0

\* variant: the sentinel edges are inserted into the hash sets only
new_sets_only(lp, rp, bounds) ==
    /\ start = (IF bounds = <<>> THEN UsizeMax ELSE bounds[1])
    /\ stop = (IF bounds = <<>> THEN 0 ELSE bounds[2])
    /\ left_padding = lp
    /\ right_padding = rp
    /\ manually_track_memory_bounds = TRUE
    /\ starts_set = {stop}
    /\ ends_set = {start}
    /\ starts_tree = {}
    /\ ends_tree = {}
    /\ distinct_blocks = 0
    /\ free_blocks = <<>>
    /\ free_space = 0

\* DistinctBlockCounter::new(vec![], lp, rp, bounds)
new(lp, rp, bounds) ==
    /\ start = (IF bounds = <<>> THEN UsizeMax ELSE bounds[1])
    /\ stop = (IF bounds = <<>> THEN 0 ELSE bounds[2])
    /\ left_padding = lp
    /\ right_padding = rp
    /\ manually_track_memory_bounds = TRUE
    /\ starts_set = {stop}
    /\ ends_set = {start}
    /\ starts_tree = {stop}
    /\ ends_tree = {start}
    /\ distinct_blocks = 0
    /\ free_blocks = <<>>
    /\ free_space = 0

\* the trace's own bookkeeping
Overlaps(a, b) == a.address < b.address + b.size /\ b.address < a.address + a.size
AsAlloc(update) == [address |-> update.address, size |-> update.size]
InPool(update) == PoolStart <= update.address /\ update.address + update.size <= PoolStop
KeepsDisjoint(update) ==
    IF update.kind = "Allocation"
    THEN \A a \in live : ~Overlaps(a, AsAlloc(update))
    ELSE AsAlloc(update) \in live

TrackTrace(update) ==
    /\ disjoint_trace' = (disjoint_trace /\ KeepsDisjoint(update))
    /\ live' = IF ~disjoint_trace' THEN {}
               ELSE IF update.kind = "Allocation" THEN live \cup {AsAlloc(update)}
               ELSE live \ {AsAlloc(update)}
    /\ in_pool_trace' = (in_pool_trace /\ InPool(update))
    /\ pushes' = pushes + 1
    /\ before_push' =
           IF ~disjoint_trace' THEN <<>>
           ELSE [update |-> update,
                 distinct_blocks |-> distinct_blocks,
                 starts_set |-> starts_set, ends_set |-> ends_set,
                 starts_tree |-> starts_tree, ends_tree |-> ends_tree,
                 free_blocks |-> free_blocks]

push_update(update) ==
    LET s == saturating_sub(get_start(update), left_padding)
        e == saturating_add(get_end(update), right_padding)
        left_attached == s \in ends_set
        right_attached == e \in starts_set
        new_starts_tree == IF update.kind = "Allocation"
                           THEN starts_tree \cup {s} ELSE starts_tree \ {s}
        new_ends_tree == IF update.kind = "Allocation"
                         THEN ends_tree \cup {e} ELSE ends_tree \ {e}
        fb == calculate_free_blocks(new_starts_tree, new_ends_tree, free_space)
    IN /\ starts_set' = (IF update.kind = "Allocation"
                         THEN starts_set \cup {s} ELSE starts_set \ {s})
       /\ ends_set' = (IF update.kind = "Allocation"
                       THEN ends_set \cup {e} ELSE ends_set \ {e})
       /\ starts_tree' = new_starts_tree
       /\ ends_tree' = new_ends_tree
       \* calculate_new_memory_bounds
       /\ start' = (IF manually_track_memory_bounds
                    THEN Min(start, update.address) ELSE start)
       /\ stop' = (IF manually_track_memory_bounds
                   THEN Max(stop, update.address + update.size) ELSE stop)
       /\ free_blocks' = fb.blocks
       /\ free_space' = fb.space
       /\ distinct_blocks' = saturating_add_signed(
                                 distinct_blocks,
                                 block_delta(update, left_attached, right_attached))
       /\ UNCHANGED <<left_padding, right_padding, manually_track_memory_bounds>>

PushUpdate ==
    /\ pushes < MaxPushes
    /\ \E update \in Updates :
          /\ push_update(update)
          /\ TrackTrace(update)
    /\ UNCHANGED <<cacheVars, hostVars, handlerVars, compressorVars, channelVars, viewersVars>>

CounterStart ==
    /\ new(0, 0, <<PoolStart, PoolStop>>)
    /\ live = {}
    /\ disjoint_trace = TRUE
    /\ in_pool_trace = TRUE
    /\ pushes = 0
    /\ before_push = <<>>

(***************************************************************************)
(* MemoryCanvas and MemoryCacheSnapshot                                    *)
(***************************************************************************)
CeilDiv(a, b) == (a + b - 1) \div b

\* Utility::get_canvas_span: lowest start and highest end of the intervals
get_canvas_span(intervals) ==
    LET los == {intervals[k].address : k \in DOMAIN intervals}
        his == {intervals[k].address + intervals[k].size : k \in DOMAIN intervals}
    IN <<CHOOSE x \in los : \A y \in los : x <= y,
         CHOOSE x \in his : \A y \in his : y <= x>>

\* MemoryCanvas::new followed by insert_blocks with no block: every cell free
MemoryCanvas(c_start, c_stop, b_size) ==
    [start |-> c_start, stop |-> c_stop, block_size |-> b_size,
     cells |-> [i \in 1..CeilDiv(c_stop - c_start, b_size) |->
                   [used |-> 0, ref |-> -1]]]

\* bytes of [lo, hi) inside cell i (cells are numbered from 1 here)
CellOverlap(canvas, i, lo, hi) ==
    LET cs == canvas.start + (i - 1) * canvas.block_size
        ce == Min(cs + canvas.block_size, canvas.stop)
    IN Max(0, Min(hi, ce) - Max(lo, cs))

\* painting one update: an Allocation adds coverage, a Free subtracts it
paint_update(canvas, update) ==
    [canvas EXCEPT !.cells =
        [i \in DOMAIN canvas.cells |->
            LET o == CellOverlap(canvas, i, update.address,
                                 update.address + update.size)
                cell == canvas.cells[i]
            IN IF o = 0 THEN cell
               ELSE IF update.kind = "Allocation"
                    THEN [used |-> cell.used + o, ref |-> update.timestamp]
                    ELSE [used |-> saturating_sub(cell.used, o),
                          ref |-> update.timestamp]]]

RECURSIVE paint_temporary_updates(_, _)
paint_temporary_updates(canvas, updates) ==
    IF updates = <<>> THEN canvas
    ELSE paint_temporary_updates(paint_update(canvas, Head(updates)), Tail(updates))

\* the MemoryStatus of every cell
render(canvas) ==
    [i \in DOMAIN canvas.cells |->
        LET cell == canvas.cells[i]
            cell_size == CellOverlap(canvas, i, canvas.start, canvas.stop)
        IN IF cell.used = 0 THEN <<"Free", cell.ref>>
           ELSE IF cell.used >= cell_size THEN <<"Allocated", cell.ref, cell.used>>
           ELSE <<"PartiallyAllocated", cell.ref, cell.used>>]

MemoryCacheSnapshot(canvas, updates) == [canvas |-> canvas, updates |-> updates]

\* a copy of the snapshot's canvas with its first this_many pending updates
render_this_many(snapshot, this_many) ==
    render(paint_temporary_updates(
               snapshot.canvas,
               SubSeq(snapshot.updates, 1, Min(this_many, Len(snapshot.updates)))))

(***************************************************************************)
(* MemoryCache                                                             *)
(***************************************************************************)
\* the bucket of cache_index: the intervals whose index / interval is
\* cache_index, in index order (indices count from 0 in the source)
RECURSIVE bucket(_, _, _, _)
bucket(intervals, ivl, cache_index, i) ==
    IF i > Len(intervals) THEN <<>>
    ELSE (IF (i - 1) \div ivl = cache_index THEN <<intervals[i]>> ELSE <<>>)
         \o bucket(intervals, ivl, cache_index, i + 1)

\* variant: the snapshot shares the running canvas, so it sees its own
\* bucket folded in
RECURSIVE snapshot_loop_shared_canvas(_, _, _, _, _)
snapshot_loop_shared_canvas(intervals, ivl, cache_index, last_index, current_canvas) ==
    IF cache_index > last_index THEN <<>>
    ELSE LET updates_in_bucket == bucket(intervals, ivl, cache_index, 1)
             painted == paint_temporary_updates(current_canvas, updates_in_bucket)
         IN <<MemoryCacheSnapshot(painted, updates_in_bucket)>>
            \o snapshot_loop_shared_canvas(intervals, ivl, cache_index + 1,
                                           last_index, painted)

\* the loop over cache_index in 0..=final_timestamp / interval
RECURSIVE snapshot_loop(_, _, _, _, _)
snapshot_loop(intervals, ivl, cache_index, last_index, current_canvas) ==
    IF cache_index > last_index THEN <<>>
    ELSE LET updates_in_bucket == bucket(intervals, ivl, cache_index, 1)
         IN <<MemoryCacheSnapshot(current_canvas, updates_in_bucket)>>
            \o snapshot_loop(intervals, ivl, cache_index + 1, last_index,
                             paint_temporary_updates(current_canvas, updates_in_bucket))

\* variant: the loop stops one cache index early
generate_cache_short(intervals, ivl, b_size) ==
    LET span == get_canvas_span(intervals)
        final_timestamp == Len(intervals) - 1
    IN snapshot_loop(intervals, ivl, 0, (final_timestamp \div ivl) - 1,
                     MemoryCanvas(span[1], span[2], b_size))

\* variant: the last cache index is taken from the number of events
generate_cache_by_len(intervals, ivl, b_size) ==
    LET span == get_canvas_span(intervals)
    IN snapshot_loop(intervals, ivl, 0, Len(intervals) \div ivl,
                     MemoryCanvas(span[1], span[2], b_size))

generate_cache(intervals, ivl, b_size) ==
    LET span == get_canvas_span(intervals)
        final_timestamp == Len(intervals) - 1
    IN snapshot_loop(intervals, ivl, 0, final_timestamp \div ivl,
                     MemoryCanvas(span[1], span[2], b_size))

Ok(v) == [ok |-> TRUE, value |-> v]
Err(msg) == [ok |-> FALSE, value |-> msg]

\* variant: the cache index is not clamped to the last snapshot
query_cache_unclamped(snapshots, ivl, timestamp) ==
    LET cache_index == timestamp \div ivl
    IN IF cache_index + 1 \in DOMAIN snapshots
       THEN Ok(render_this_many(snapshots[cache_index + 1],
                                timestamp - cache_index * ivl))
       ELSE Err("[MemoryCache::query_cache]: Cache index out of bounds.")

\* variant: the cache index is the timestamp over the interval rounded up
cache_index_rounded_up(snapshots, ivl, timestamp) ==
    Max(0, Min((timestamp + ivl - 1) \div ivl, Len(snapshots) - 1))

\* (timestamp / interval).clamp(0, len - 1), line 28
cache_index(snapshots, ivl, timestamp) ==
    Max(0, Min(timestamp \div ivl, Len(snapshots) - 1))
\* timestamp - cache_index * interval, line 30
replay_offset(snapshots, ivl, timestamp) ==
    timestamp - cache_index(snapshots, ivl, timestamp) * ivl

query_cache(snapshots, ivl, timestamp) ==
    IF cache_index(snapshots, ivl, timestamp) + 1 \in DOMAIN snapshots
    THEN Ok(render_this_many(snapshots[cache_index(snapshots, ivl, timestamp) + 1],
                             replay_offset(snapshots, ivl, timestamp)))
    ELSE Err("[MemoryCache::query_cache]: Cache index out of bounds.")

\* variant: the cache interval is overwritten by the block size
change_block_size_swapped(new_block_size) ==
    /\ memory_cache_snapshots' =
           generate_cache(update_intervals, new_block_size, new_block_size)
    /\ interval' = new_block_size
    /\ UNCHANGED update_intervals

change_block_size(new_block_size) ==
    /\ memory_cache_snapshots' =
           generate_cache(update_intervals, interval, new_block_size)
    /\ UNCHANGED <<update_intervals, interval>>

\* event lists: the interval of index i carries timestamp i
CacheEvents == [kind : {"Allocation", "Free"}, address : {0, 1}, size : {2}]
EventLists == UNION {[1..n -> CacheEvents] : n \in 1..MaxEvents}
Stamp(list) ==
    [k \in DOMAIN list |->
        [kind |-> list[k].kind, address |-> list[k].address,
         size |-> list[k].size, timestamp |-> k - 1]]

\* MemoryCache::new(block_size, update_intervals, interval)
CacheBuilt ==
    \E list \in EventLists, ivl \in 1..MaxInterval, b_size \in 1..MaxBlockSize :
        /\ update_intervals = Stamp(list)
        /\ interval = ivl
        /\ memory_cache_snapshots = generate_cache(Stamp(list), ivl, b_size)
        /\ requested_block_size = b_size
        /\ rebuilt = FALSE
        /\ query_timestamp = -1
        /\ query_result = <<>>

CacheAbsent ==
    /\ update_intervals = <<>>
    /\ interval = 1
    /\ memory_cache_snapshots = <<>>
    /\ requested_block_size = 1
    /\ rebuilt = FALSE
    /\ query_timestamp = -1
    /\ query_result = <<>>

QueryCache ==
    \E timestamp \in 0..(Len(update_intervals) + MaxBeyond) :
        /\ query_timestamp' = timestamp
        /\ query_result' = query_cache(memory_cache_snapshots, interval, timestamp)
        /\ UNCHANGED <<memory_cache_snapshots, update_intervals, interval,
                       requested_block_size, rebuilt>>
        /\ UNCHANGED <<counterVars, hostVars, handlerVars, compressorVars,
                       channelVars, viewersVars>>

ChangeBlockSize ==
    \E new_block_size \in 1..MaxBlockSize :
        /\ requested_block_size' = new_block_size
        /\ rebuilt' = TRUE
        /\ query_timestamp' = -1
        /\ query_result' = <<>>
        /\ change_block_size(new_block_size)
        /\ UNCHANGED <<counterVars, hostVars, handlerVars, compressorVars,
                       channelVars, viewersVars>>
(***************************************************************************)
(* Host commands (main.rs)                                                 *)
(***************************************************************************)
Threads == {1, 2}
None == <<>>

GraphCommands ==
    {"get_viewer_usage_graph", "get_viewer_usage_graph_no_fallbacks",
     "get_viewer_usage_graph_sampled", "get_viewer_distinct_blocks_graph",
     "get_viewer_distinct_blocks_graph_no_fallbacks",
     "get_viewer_distinct_blocks_graph_sampled", "get_viewer_largest_block_graph",
     "get_viewer_largest_block_graph_no_fallbacks",
     "get_viewer_largest_block_graph_sampled", "get_viewer_free_blocks_graph",
     "get_viewer_free_blocks_graph_no_fallbacks",
     "get_viewer_free_blocks_graph_sampled",
     "get_viewer_free_segment_fragmentation_graph_no_fallbacks",
     "get_viewer_free_segment_fragmentation_graph_sampled",
     "get_viewer_largest_free_block_graph_no_fallbacks",
     "get_viewer_largest_free_block_graph_sampled"}
MapCommands ==
    {"get_viewer_map_full_at_colours",
     "get_viewer_map_full_at_colours_realtime_sampled"}
InstanceCommands ==
    GraphCommands \cup MapCommands
        \cup {"get_operation_log", "get_callstack", "query_block", "query_block_realtime"}
\* the commands that read or change a loaded viewer
ViewerCommands == InstanceCommands \cup {"set_block_size", "get_pool_list"}

\* the pools of a loaded viewer (indices into viewer.damselflies), and the
\* damselfly_instance arguments a front end may send: 1 names no pool
Instances == {0}
InstanceArgs == {0, 1}

\* the calls a front end can make
Calls ==
    [name : InstanceCommands, damselfly_instance : InstanceArgs, new_block_size : {0}]
    \cup [name : {"get_pool_list", "initialise_viewer"},
          damselfly_instance : {0}, new_block_size : {0}]
    \cup [name : {"set_block_size"},
          damselfly_instance : InstanceArgs, new_block_size : 1..MaxBlockSize]
NoCall == [name |-> "none", damselfly_instance |-> 0, new_block_size |-> 0]

NotInitialised == Err("Viewer is not initialised")
Panicked == [ok |-> FALSE, value |-> "panic"]
NoReturn == [ok |-> FALSE, value |-> "none"]

\* DamselflyViewer::new: one instance per pool, each with its map block size
\* and the block size its cache snapshots were built with; complete is FALSE
\* while the constructor is still running
DamselflyViewer(gen) ==
    [gen |-> gen, complete |-> TRUE,
     block_size |-> [i \in Instances |-> LoadedBlockSize],
     snapshots |-> [i \in Instances |-> LoadedBlockSize]]

\* a command is invoked on a free command thread
Invoke(t) ==
    /\ pc[t] = "idle"
    /\ \E call \in Calls :
          /\ call.name = "initialise_viewer" => loads < MaxLoads
          /\ cmd' = [cmd EXCEPT ![t] = call]
          /\ ret' = [ret EXCEPT ![t] = NoReturn]
          /\ pc' = [pc EXCEPT ![t] =
                       IF call.name = "initialise_viewer" THEN "build" ELSE "lock"]
    /\ UNCHANGED <<viewer, lock_holder, poisoned, built, loads>>
    /\ UNCHANGED <<counterVars, cacheVars, handlerVars, compressorVars, channelVars, viewersVars>>

\* initialise_viewer, line 54: the viewer is built in a local of the command
\* thread before the lock is taken; the constructor starts ...
BuildViewer(t) ==
    /\ pc[t] = "build"
    /\ loads' = loads + 1
    /\ built' = [built EXCEPT ![t] =
                    [DamselflyViewer(loads + 1) EXCEPT !.complete = FALSE]]
    /\ pc' = [pc EXCEPT ![t] = "building"]
    /\ UNCHANGED <<viewer, lock_holder, poisoned, cmd, ret>>
    /\ UNCHANGED <<counterVars, cacheVars, handlerVars, compressorVars, channelVars, viewersVars>>

\* variant: the constructor's value is handed on before it is complete
FinishBuild_partial(t) ==
    /\ pc[t] = "building"
    /\ pc' = [pc EXCEPT ![t] = "lock"]
    /\ UNCHANGED <<viewer, lock_holder, poisoned, cmd, ret, built, loads>>
    /\ UNCHANGED <<counterVars, cacheVars, handlerVars, compressorVars, channelVars, viewersVars>>

\* ... and returns the complete viewer
FinishBuild(t) ==
    /\ pc[t] = "building"
    /\ built' = [built EXCEPT ![t] = [built[t] EXCEPT !.complete = TRUE]]
    /\ pc' = [pc EXCEPT ![t] = "lock"]
    /\ UNCHANGED <<viewer, lock_holder, poisoned, cmd, ret, loads>>
    /\ UNCHANGED <<counterVars, cacheVars, handlerVars, compressorVars, channelVars, viewersVars>>

\* state.viewer.lock().unwrap(): blocks while the mutex is held, panics when
\* it is poisoned
LockViewer(t) ==
    /\ pc[t] = "lock"
    /\ lock_holder = 0
    /\ IF poisoned
       THEN /\ pc' = [pc EXCEPT ![t] = "idle"]
            /\ ret' = [ret EXCEPT ![t] = Panicked]
            /\ cmd' = [cmd EXCEPT ![t] = NoCall]
            /\ built' = [built EXCEPT ![t] = None]
            /\ UNCHANGED lock_holder
       ELSE /\ pc' = [pc EXCEPT ![t] = "locked"]
            /\ lock_holder' = t
            /\ UNCHANGED <<ret, cmd, built>>
    /\ UNCHANGED <<viewer, poisoned, loads>>
    /\ UNCHANGED <<counterVars, cacheVars, handlerVars, compressorVars, channelVars, viewersVars>>

\* what a command does with the locked Option: the new content of the
\* mutex, the value returned, and whether the thread panicked
\* variant: set_block_size takes the viewer out of the Option to rebuild it
\* and does not put it back
command_body_takes_viewer(call, v, mine) ==
    IF call.name = "initialise_viewer"
    THEN [viewer |-> mine, ret |-> Ok("unit"), panic |-> FALSE, rebuild |-> FALSE]
    ELSE IF v = None
    THEN [viewer |-> v, ret |-> NotInitialised, panic |-> FALSE, rebuild |-> FALSE]
    ELSE IF call.name # "get_pool_list" /\ call.damselfly_instance \notin Instances
    THEN [viewer |-> v, ret |-> Panicked, panic |-> TRUE, rebuild |-> FALSE]
    ELSE IF call.name = "set_block_size"
    THEN [viewer |-> None, ret |-> Ok("unit"), panic |-> FALSE, rebuild |-> FALSE]
    ELSE IF call.name \in MapCommands
    THEN [viewer |-> v,
          ret |-> Ok(<<"map", v.gen, v.complete,
                       v.snapshots[call.damselfly_instance]>>),
          panic |-> FALSE, rebuild |-> FALSE]
    ELSE [viewer |-> v, ret |-> Ok(<<"data", v.gen, v.complete>>), panic |-> FALSE, rebuild |-> FALSE]

\* variant: the Option is unwrapped instead of matched
command_body_unwraps(call, v, mine) ==
    IF call.name = "initialise_viewer"
    THEN [viewer |-> mine, ret |-> Ok("unit"), panic |-> FALSE, rebuild |-> FALSE]
    ELSE IF v = None
    THEN [viewer |-> v, ret |-> Panicked, panic |-> TRUE, rebuild |-> FALSE]
    ELSE IF call.name # "get_pool_list" /\ call.damselfly_instance \notin Instances
    THEN [viewer |-> v, ret |-> Panicked, panic |-> TRUE, rebuild |-> FALSE]
    ELSE IF call.name = "set_block_size"
    THEN [viewer |-> [v EXCEPT !.block_size[call.damselfly_instance] =
                                   call.new_block_size],
          ret |-> Ok("unit"), panic |-> FALSE, rebuild |-> TRUE]
    ELSE IF call.name \in MapCommands
    THEN [viewer |-> v,
          ret |-> Ok(<<"map", v.gen, v.complete,
                       v.snapshots[call.damselfly_instance]>>),
          panic |-> FALSE, rebuild |-> FALSE]
    ELSE [viewer |-> v, ret |-> Ok(<<"data", v.gen, v.complete>>), panic |-> FALSE, rebuild |-> FALSE]

command_body(call, v, mine) ==
    IF call.name = "initialise_viewer"
    \* line 55: replace(viewer)
    THEN [viewer |-> mine, ret |-> Ok("unit"), panic |-> FALSE, rebuild |-> FALSE]
    ELSE IF v = None
    \* the else branch of `if let Some(viewer)`
    THEN [viewer |-> v, ret |-> NotInitialised, panic |-> FALSE, rebuild |-> FALSE]
    ELSE IF call.name # "get_pool_list" /\ call.damselfly_instance \notin Instances
    \* get_mut(damselfly_instance).expect(..)
    THEN [viewer |-> v, ret |-> Panicked, panic |-> TRUE, rebuild |-> FALSE]
    ELSE IF call.name = "set_block_size"
    THEN [viewer |-> [v EXCEPT !.block_size[call.damselfly_instance] =
                                   call.new_block_size],
          ret |-> Ok("unit"), panic |-> FALSE, rebuild |-> TRUE]
    ELSE IF call.name \in MapCommands
    THEN [viewer |-> v,
          ret |-> Ok(<<"map", v.gen, v.complete,
                       v.snapshots[call.damselfly_instance]>>),
          panic |-> FALSE, rebuild |-> FALSE]
    ELSE [viewer |-> v, ret |-> Ok(<<"data", v.gen, v.complete>>), panic |-> FALSE, rebuild |-> FALSE]

\* the holder of the mutex after the body's first step: viewer_lock lives
\* to the end of the handler, so a rebuild runs with the guard held
\* variant: the guard is dropped before set_map_block_size is called
guard_after_body_dropped(out, t) == 0

guard_after_body(out, t) == IF out.rebuild THEN t ELSE 0

\* the body of a command under the lock, up to the drop of the guard; the
\* body of set_block_size goes on in FinishRebuild
RunCommand(t) ==
    /\ pc[t] = "locked"
    /\ lock_holder = t
    /\ LET out == command_body(cmd[t], viewer, built[t])
       IN /\ viewer' = out.viewer
          /\ poisoned' = (poisoned \/ out.panic)
          /\ lock_holder' = guard_after_body(out, t)
          /\ IF out.rebuild
             THEN /\ pc' = [pc EXCEPT ![t] = "rebuilding"]
                  /\ UNCHANGED <<ret, cmd>>
             ELSE /\ pc' = [pc EXCEPT ![t] = "idle"]
                  /\ ret' = [ret EXCEPT ![t] = out.ret]
                  /\ cmd' = [cmd EXCEPT ![t] = NoCall]
    /\ built' = [built EXCEPT ![t] = None]
    /\ UNCHANGED loads
    /\ UNCHANGED <<counterVars, cacheVars, handlerVars, compressorVars, channelVars, viewersVars>>

\* MemoryCache::change_block_size seen from the viewer: the snapshots of
\* instance i are replaced by snapshots built with the new block size
rebuild_snapshots(v, i) == [v EXCEPT !.snapshots[i] = v.block_size[i]]

\* set_block_size, lines 351-352: set_map_block_size returns, the handler
\* returns Ok(()) and the guard is dropped
FinishRebuild(t) ==
    /\ pc[t] = "rebuilding"
    /\ viewer' = rebuild_snapshots(viewer, cmd[t].damselfly_instance)
    /\ ret' = [ret EXCEPT ![t] = Ok("unit")]
    /\ lock_holder' = (IF lock_holder = t THEN 0 ELSE lock_holder)
    /\ pc' = [pc EXCEPT ![t] = "idle"]
    /\ cmd' = [cmd EXCEPT ![t] = NoCall]
    /\ UNCHANGED <<poisoned, built, loads>>
    /\ UNCHANGED <<counterVars, cacheVars, handlerVars, compressorVars, channelVars, viewersVars>>

\* main, line 18: the managed state starts with no viewer
HostStart ==
    /\ viewer = None
    /\ lock_holder = 0
    /\ poisoned = FALSE
    /\ pc = [t \in Threads |-> "idle"]
    /\ cmd = [t \in Threads |-> NoCall]
    /\ ret = [t \in Threads |-> NoReturn]
    /\ built = [t \in Threads |-> None]
    /\ loads = 0

(***************************************************************************)
(* query_block, query_block_realtime and get_operation_log (main.rs): the  *)
(* part of the handler that works on what the instance returned.           *)
(***************************************************************************)
\* sort_by_key is a stable sort; the key is Reverse(timestamp), so x goes
\* behind every element whose timestamp is not smaller
RECURSIVE insert_by_reverse_timestamp(_, _)
insert_by_reverse_timestamp(sorted, x) ==
    IF sorted = <<>> THEN <<x>>
    ELSE IF Head(sorted).timestamp >= x.timestamp
         THEN <<Head(sorted)>> \o insert_by_reverse_timestamp(Tail(sorted), x)
         ELSE <<x>> \o sorted

RECURSIVE sort_by_key_reverse_timestamp(_)
sort_by_key_reverse_timestamp(updates) ==
    IF updates = <<>> THEN <<>>
    ELSE insert_by_reverse_timestamp(
             sort_by_key_reverse_timestamp(SubSeq(updates, 1, Len(updates) - 1)),
             updates[Len(updates)])

reverse(updates) == [k \in DOMAIN updates |-> updates[Len(updates) + 1 - k]]

\* query_block, lines 413-416, and query_block_realtime, lines 436-439
query_block(updates) == Ok(reverse(sort_by_key_reverse_timestamp(updates)))

\* usize subtraction: the debug build panics on underflow, the release
\* build wraps
usize_sub(a, b, bld) ==
    IF a >= b THEN a - b
    ELSE IF bld = "debug" THEN -1
    ELSE a - b + UsizeMax + 1

\* take(128)
OperationLogTake == 128

\* get_operation_log, lines 362-380: the displayed size and address of each
\* of the first 128 updates; a panic of the closure ends the command
get_operation_log(history, l_padding, r_padding, bld) ==
    LET taken == SubSeq(history, 1, Min(OperationLogTake, Len(history)))
        shown == [k \in DOMAIN taken |->
                     [address |-> usize_sub(taken[k].address, l_padding, bld),
                      size |-> usize_sub(taken[k].size, r_padding, bld)]]
    IN IF \E k \in DOMAIN shown : shown[k].address < 0 \/ shown[k].size < 0
       THEN Panicked
       ELSE Ok(shown)

\* the load-time padding: the address is shifted by -left_pad and the size
\* extended by +right_pad
load_with_padding(trace, l_padding, r_padding) ==
    [k \in DOMAIN trace |->
        [address |-> trace[k].address - l_padding,
         size |-> trace[k].size + r_padding]]

\* what an instance can return to query_block: events of a few addresses,
\* timestamps that may tie
BlockEvents == [address : {0, 1}, timestamp : {0, 1}]
\* the events of a trace, for the operation log
LogEvents == [address : {0, 1, 2, 4}, size : {1, 2}]
Histories(events) == UNION {[1..n -> events] : n \in 0..MaxHistory}

NoHandlerCall == [name |-> "none"]

HandlerStart ==
    /\ handler_call = NoHandlerCall
    /\ handler_result = NoReturn

\* one command is called on what the instance returned
QueryBlock ==
    /\ handler_call = NoHandlerCall
    /\ \E name \in {"query_block", "query_block_realtime"},
          updates \in Histories(BlockEvents) :
          /\ handler_call' = [name |-> name, updates |-> updates]
          /\ handler_result' = query_block(updates)
    /\ UNCHANGED <<counterVars, cacheVars, hostVars, compressorVars, channelVars, viewersVars>>

\* the instance was loaded from trace with the paddings load_left and
\* load_right; the command is called with left_padding and right_padding
GetOperationLog ==
    /\ handler_call = NoHandlerCall
    /\ \E trace \in Histories(LogEvents),
          load_left \in 0..MaxPadding, load_right \in 0..MaxPadding,
          l_padding \in 0..MaxPadding, r_padding \in 0..MaxPadding,
          bld \in {"debug", "release"} :
          /\ \A k \in DOMAIN trace : trace[k].address >= load_left
          /\ handler_call' =
                 [name |-> "get_operation_log", trace |-> trace,
                  load_left |-> load_left, load_right |-> load_right,
                  history |-> load_with_padding(trace, load_left, load_right),
                  left_padding |-> l_padding, right_padding |-> r_padding]
          /\ handler_result' =
                 get_operation_log(load_with_padding(trace, load_left, load_right),
                                   l_padding, r_padding, bld)
    /\ UNCHANGED <<counterVars, cacheVars, hostVars, compressorVars, channelVars, viewersVars>>

(***************************************************************************)
(* UpdateQueueCompressor                                                   *)
(***************************************************************************)
\* iter().position(..): the index of the first accumulated allocation at
\* the address, 0 for None (the accumulated list holds allocations only, so
\* the panic arm of the closure is never taken)
\* variant: the last such allocation
position_last(compressed_updates, address) ==
    LET hits == {k \in DOMAIN compressed_updates :
                    compressed_updates[k].address = address}
    IN IF hits = {} THEN 0 ELSE CHOOSE k \in hits : \A j \in hits : j <= k

position(compressed_updates, address) ==
    LET hits == {k \in DOMAIN compressed_updates :
                    compressed_updates[k].address = address}
    IN IF hits = {} THEN 0 ELSE CHOOSE k \in hits : \A j \in hits : k <= j

\* Vec::remove
remove(list, index) ==
    SubSeq(list, 1, index - 1) \o SubSeq(list, index + 1, Len(list))

\* the for loop of the three functions, from update i on; strict is TRUE
\* where the position is unwrapped with expect
RECURSIVE compress_loop(_, _, _, _)
compress_loop(updates, i, compressed_updates, strict) ==
    IF i > Len(updates) THEN Ok(compressed_updates)
    ELSE IF updates[i].kind = "Allocation"
    THEN compress_loop(updates, i + 1, Append(compressed_updates, updates[i]), strict)
    ELSE LET alloc_to_remove == position(compressed_updates, updates[i].address)
         IN IF alloc_to_remove # 0
            THEN compress_loop(updates, i + 1,
                               remove(compressed_updates, alloc_to_remove), strict)
            ELSE IF strict THEN Panicked
            ELSE compress_loop(updates, i + 1, compressed_updates, strict)

compress_to_allocs(updates) == compress_loop(updates, 1, <<>>, FALSE)

\* variant: a Free removes every accumulated allocation at its address
RECURSIVE compress_loop_removes_all(_, _, _)
compress_loop_removes_all(updates, i, compressed_updates) ==
    IF i > Len(updates) THEN Ok(compressed_updates)
    ELSE IF updates[i].kind = "Allocation"
    THEN compress_loop_removes_all(updates, i + 1,
                                   Append(compressed_updates, updates[i]))
    ELSE IF position(compressed_updates, updates[i].address) = 0 THEN Panicked
    ELSE compress_loop_removes_all(
             updates, i + 1,
             SelectSeq(compressed_updates,
                       LAMBDA u : u.address # updates[i].address))
compress_ref_to_allocs_removes_all(updates) ==
    compress_loop_removes_all(updates, 1, <<>>)

compress_ref_to_allocs(updates) == compress_loop(updates, 1, <<>>, TRUE)
compress_intervals(updates) == compress_loop(updates, 1, <<>>, TRUE)

CompressFunctions == {"compress_to_allocs", "compress_ref_to_allocs", "compress_intervals"}
CompressEvents == [kind : {"Allocation", "Free"}, address : {0, 1}, size : {1, 2}]
CompressLists == UNION {[1..n -> CompressEvents] : n \in 0..MaxCompress}

CompressorStart ==
    /\ compress_call = [function |-> "none", updates |-> <<>>]
    /\ compress_result = NoReturn

Compress ==
    /\ compress_call.function = "none"
    /\ \E function \in CompressFunctions, updates \in CompressLists :
          /\ compress_call' = [function |-> function, updates |-> updates]
          /\ compress_result' =
                 (IF function = "compress_to_allocs" THEN compress_to_allocs(updates)
                  ELSE IF function = "compress_ref_to_allocs"
                       THEN compress_ref_to_allocs(updates)
                  ELSE compress_intervals(updates))
    /\ UNCHANGED <<counterVars, cacheVars, hostVars, handlerVars, channelVars, viewersVars>>

(***************************************************************************)
(* The channel-fed DamselflyViewer (src/damselfly_viewer.rs)               *)
(***************************************************************************)
\* usize + and *: the debug build panics on overflow (-1 here), the release
\* build wraps
usize_add(a, b, bld) ==
    IF a + b <= UsizeMax THEN a + b
    ELSE IF bld = "debug" THEN -1
    ELSE (a + b) % (UsizeMax + 1)

usize_mul(a, b, bld) ==
    IF a * b <= UsizeMax THEN a * b
    ELSE IF bld = "debug" THEN -1
    ELSE (a * b) % (UsizeMax + 1)

\* debug_assert!(right > left): checked by the debug build only
debug_assert_fails(left, right, bld) == bld = "debug" /\ ~(right > left)

\* the outcome of an operation on the time span
Span(left, right, unlocked) ==
    [timespan |-> <<left, right>>, unlocked |-> unlocked, panic |-> FALSE]
SpanPanic == [timespan |-> <<0, 0>>, unlocked |-> FALSE, panic |-> TRUE]
\* an arithmetic step of the operation panicked
Overflowed(values) == \E v \in values : v < 0

shift_timespan_right(span, unlocked, len, units, bld) ==
    LET left == span[1]
        right == span[2]
        width == usize_sub(right, left, bld)
        absolute_shift == usize_mul(units, width, bld)
        last == usize_sub(len, 1, bld)
        new_right == Min(saturating_add(right, absolute_shift), last)
        room == usize_sub(new_right, width, bld)
        new_left == Min(saturating_add(left, absolute_shift), room)
    IN IF debug_assert_fails(left, right, bld) \/ width < 0 THEN SpanPanic
       ELSE IF width < DEFAULT_TIMESPAN THEN Span(left, right, unlocked)
       ELSE IF Overflowed({absolute_shift, last, room}) THEN SpanPanic
       ELSE IF debug_assert_fails(new_left, new_right, bld) THEN SpanPanic
       ELSE Span(new_left, new_right, unlocked)

shift_timespan_left(span, unlocked, len, units, bld) ==
    LET left == span[1]
        right == span[2]
        width == usize_sub(right, left, bld)
        absolute_shift == usize_mul(units, width, bld)
        new_left == saturating_sub(left, absolute_shift)
        floor == usize_add(new_left, width, bld)
        new_right == Max(saturating_sub(right, absolute_shift), floor)
    IN IF debug_assert_fails(left, right, bld) THEN SpanPanic
       ELSE IF Overflowed({width, absolute_shift, floor}) THEN SpanPanic
       ELSE IF debug_assert_fails(new_left, new_right, bld) THEN SpanPanic
       ELSE Span(new_left, new_right, TRUE)

shift_timespan_to_beginning(span, unlocked, len, bld) ==
    LET width == usize_sub(span[2], span[1], bld)
    IN IF width < 0 THEN SpanPanic ELSE Span(0, width, unlocked)

shift_timespan_to_end(span, unlocked, len, bld) ==
    LET new_right == usize_sub(len, 1, bld)
        width == usize_sub(span[2], span[1], bld)
        new_left == usize_sub(new_right, width, bld)
    IN IF Overflowed({new_right, width, new_left}) THEN SpanPanic
       ELSE Span(new_left, new_right, unlocked)

\* variant: the span ends at the number of snapshots
lock_timespan_at_len(span, unlocked, len, bld) ==
    LET width == usize_sub(span[2], span[1], bld)
        current_span == Max(DEFAULT_TIMESPAN, width)
        new_right == len
    IN IF width < 0 THEN SpanPanic
       ELSE Span(saturating_sub(new_right, current_span), new_right, FALSE)

lock_timespan(span, unlocked, len, bld) ==
    LET width == usize_sub(span[2], span[1], bld)
        current_span == Max(DEFAULT_TIMESPAN, width)
        new_right == saturating_sub(len, 1)
    IN IF width < 0 THEN SpanPanic
       ELSE Span(saturating_sub(new_right, current_span), new_right, FALSE)

unlock_timespan(span, unlocked, len, bld) == Span(span[1], span[2], TRUE)

\* update, lines 124-129, after an instruction was received
advance_timespan(span, unlocked, bld) ==
    LET new_right == usize_add(span[2], 1, bld)
        new_left == IF new_right > DEFAULT_TIMESPAN
                    THEN usize_add(span[1], 1, bld) ELSE span[1]
    IN IF unlocked THEN Span(span[1], span[2], unlocked)
       ELSE IF Overflowed({new_right, new_left}) THEN SpanPanic
       ELSE Span(new_left, new_right, unlocked)

\* the operations an instruction can carry; the size of an Allocation is
\* not read by the viewer and is left out
Operations == [kind : {"Allocation", "Free"}, address : {0, 1}, callstack : {"f", "g"}]

\* a traced program that repeats one operation, for as long as the viewer
\* is observed
PlainProgram ==
    [operations |-> {[kind |-> "Allocation", address |-> 0, callstack |-> "f"]},
     length |-> MaxSteps * MaxQueued]

\* update_memory_map: the status of the address is overwritten
update_memory_map(map, operation) ==
    [a \in DOMAIN map \cup {operation.address} |->
        IF a = operation.address
        THEN <<(IF operation.kind = "Allocation" THEN "Allocated" ELSE "Free"),
               operation.callstack>>
        ELSE map[a]]

\* update_memory_map for each received instruction in turn
RECURSIVE update_memory_map_each(_, _)
update_memory_map_each(map, operations) ==
    IF operations = <<>> THEN map
    ELSE update_memory_map_each(update_memory_map(map, Head(operations)),
                                Tail(operations))

\* DamselflyViewer::new, lines 34-45, in a program built as bld, fed by the
\* traced program prog
ChannelStartWith(bld, prog) ==
    /\ timespan = <<0, DEFAULT_TIMESPAN>>
    /\ timespan_is_unlocked = FALSE
    /\ memory_usage_snapshots = 0
    /\ instruction_rx = <<>>
    /\ operation_history = <<>>
    /\ memory_map = <<>>
    /\ program = prog
    /\ hung_up = FALSE
    /\ build = bld
    /\ viewer_panicked = FALSE
    /\ follows = FALSE
    /\ follows_updates = -1
    /\ shifted_left = <<>>
    /\ found_hung_up = FALSE
    /\ steps = 0

ChannelStart(bld) == ChannelStartWith(bld, PlainProgram)

\* one operation on the viewer: out is what it did to the time span, len
\* and queued the snapshots and waiting instructions it leaves
ViewerStep(out, len, queued, locks, keeps, received, shifted, idle) ==
    /\ ~viewer_panicked
    /\ steps < MaxSteps
    /\ steps' = steps + 1
    /\ viewer_panicked' = out.panic
    /\ timespan' = (IF out.panic THEN timespan ELSE out.timespan)
    /\ timespan_is_unlocked' =
           (IF out.panic THEN timespan_is_unlocked ELSE out.unlocked)
    /\ memory_usage_snapshots' = len
    /\ instruction_rx' = queued
    /\ LET received_now ==
               SubSeq(instruction_rx, 1, Len(instruction_rx) - Len(queued))
       IN /\ operation_history' = operation_history \o received_now
          /\ memory_map' = update_memory_map_each(memory_map, received_now)
    /\ follows' = (~out.panic /\ ~out.unlocked /\ (locks \/ follows))
    /\ follows_updates' =
           (IF out.panic \/ out.unlocked \/ ~keeps THEN -1
            ELSE IF locks THEN (IF len >= 1 THEN 0 ELSE -1)
            ELSE IF follows_updates < 0 THEN -1
            ELSE follows_updates + (IF received THEN 1 ELSE 0))
    /\ shifted_left' = (IF out.panic THEN <<>> ELSE shifted)
    /\ found_hung_up' = idle
    /\ UNCHANGED <<hung_up, build, program>>
    /\ UNCHANGED <<counterVars, cacheVars, hostVars, handlerVars, compressorVars, viewersVars>>

\* the sender's side of the channel
Send ==
    /\ ~hung_up
    /\ Len(instruction_rx) < MaxQueued
    /\ Len(operation_history) + Len(instruction_rx) < program.length
    /\ \E operation \in program.operations :
          instruction_rx' = Append(instruction_rx, operation)
    /\ UNCHANGED <<timespan, timespan_is_unlocked, memory_usage_snapshots, hung_up,
                   build, viewer_panicked, follows, follows_updates,
                   shifted_left, found_hung_up, steps, operation_history,
                   memory_map, program>>
    /\ UNCHANGED <<counterVars, cacheVars, hostVars, handlerVars, compressorVars, viewersVars>>

HangUp ==
    /\ ~hung_up
    /\ hung_up' = TRUE
    /\ UNCHANGED <<timespan, timespan_is_unlocked, memory_usage_snapshots,
                   instruction_rx, build, viewer_panicked, follows,
                   follows_updates, shifted_left, found_hung_up, steps,
                   operation_history, memory_map, program>>
    /\ UNCHANGED <<counterVars, cacheVars, hostVars, handlerVars, compressorVars, viewersVars>>

\* variant: after a hang-up update goes on to the time span instead of
\* returning
Update_falls_through ==
    IF instruction_rx # <<>>
    THEN ViewerStep(advance_timespan(timespan, timespan_is_unlocked, build),
                    memory_usage_snapshots + 1, Tail(instruction_rx),
                    FALSE, TRUE, TRUE, <<>>, FALSE)
    ELSE /\ hung_up
         /\ ViewerStep(advance_timespan(timespan, timespan_is_unlocked, build),
                       memory_usage_snapshots, instruction_rx, FALSE, TRUE, FALSE,
                       <<>>, TRUE)

\* update: recv() blocks until an instruction waits or the sender is gone
Update ==
    IF instruction_rx # <<>>
    THEN ViewerStep(advance_timespan(timespan, timespan_is_unlocked, build),
                    memory_usage_snapshots + 1, Tail(instruction_rx),
                    FALSE, TRUE, TRUE, <<>>, FALSE)
    ELSE /\ hung_up
         /\ ViewerStep(Span(timespan[1], timespan[2], timespan_is_unlocked),
                       memory_usage_snapshots, instruction_rx, FALSE, TRUE, FALSE,
                       <<>>, TRUE)

\* gulp_channel: every waiting instruction is taken, the time span is not
\* touched
GulpChannel ==
    ViewerStep(Span(timespan[1], timespan[2], timespan_is_unlocked),
               memory_usage_snapshots + Len(instruction_rx), <<>>,
               FALSE, FALSE, FALSE, <<>>, FALSE)

LockTimespan ==
    ViewerStep(lock_timespan(timespan, timespan_is_unlocked,
                             memory_usage_snapshots, build),
               memory_usage_snapshots, instruction_rx, TRUE, TRUE, FALSE, <<>>, FALSE)

UnlockTimespan ==
    ViewerStep(unlock_timespan(timespan, timespan_is_unlocked,
                               memory_usage_snapshots, build),
               memory_usage_snapshots, instruction_rx, FALSE, TRUE, FALSE, <<>>, FALSE)

ShiftTimespanLeft ==
    \E units \in 1..MaxUnits :
        ViewerStep(shift_timespan_left(timespan, timespan_is_unlocked,
                                       memory_usage_snapshots, units, build),
                   memory_usage_snapshots, instruction_rx, FALSE, TRUE, FALSE,
                   <<timespan, units>>, FALSE)

ShiftTimespanRight ==
    \E units \in 1..MaxUnits :
        ViewerStep(shift_timespan_right(timespan, timespan_is_unlocked,
                                        memory_usage_snapshots, units, build),
                   memory_usage_snapshots, instruction_rx, FALSE, TRUE, FALSE, <<>>, FALSE)

ShiftTimespanToBeginning ==
    ViewerStep(shift_timespan_to_beginning(timespan, timespan_is_unlocked,
                                           memory_usage_snapshots, build),
               memory_usage_snapshots, instruction_rx, FALSE, FALSE, FALSE, <<>>, FALSE)

ShiftTimespanToEnd ==
    ViewerStep(shift_timespan_to_end(timespan, timespan_is_unlocked,
                                     memory_usage_snapshots, build),
               memory_usage_snapshots, instruction_rx, FALSE, TRUE, FALSE, <<>>, FALSE)

\* DistinctBlockCounter::default(): every field zero or empty, no sentinel
\* edges, the bounds are not tracked
DefaultCounterStart ==
    /\ start = 0
    /\ stop = 0
    /\ left_padding = 0
    /\ right_padding = 0
    /\ manually_track_memory_bounds = FALSE
    /\ starts_set = {}
    /\ ends_set = {}
    /\ starts_tree = {}
    /\ ends_tree = {}
    /\ distinct_blocks = 0
    /\ free_blocks = <<>>
    /\ free_space = 0
    /\ live = {}
    /\ disjoint_trace = TRUE
    /\ in_pool_trace = TRUE
    /\ pushes = 0
    /\ before_push = <<>>

\* get_memory_usage_view: one point per index of the time span, its x the
\* offset from the left end; a panic where an index has no snapshot (expect)
get_memory_usage_view(span, len) ==
    IF \E i \in span[1]..(span[2] - 1) : i >= len THEN Panicked
    ELSE Ok([k \in 1..(span[2] - span[1]) |-> k - 1])

\* get_latest_map_state: the maintained map and the last logged operation
\* (None for an empty history)
get_latest_map_state(map, history, len) ==
    LET last == saturating_sub(len, 1)
    IN <<map, IF last + 1 \in DOMAIN history THEN <<history[last + 1]>> ELSE None>>

\* get_map_state: the for loop over 0..=time from turn i on, each turn
\* taking the next operation of the history, if any, and inserting its
\* status at its address
RECURSIVE get_map_state_loop(_, _, _, _)
get_map_state_loop(history, i, time, map) ==
    IF i > time THEN map
    ELSE IF i + 1 \in DOMAIN history
    THEN LET operation == history[i + 1]
             status == IF operation.kind = "Allocation"
                       THEN <<"Allocated", operation.callstack>>
                       ELSE <<"Free", operation.callstack>>
         IN get_map_state_loop(
                history, i + 1, time,
                [a \in DOMAIN map \cup {operation.address} |->
                    IF a = operation.address THEN status ELSE map[a]])
    ELSE get_map_state_loop(history, i + 1, time, map)

\* variant: the loop runs over 0..time, leaving out the operation at time
get_map_state_exclusive(history, time) ==
    <<get_map_state_loop(history, 0, time - 1, <<>>),
      IF time + 1 \in DOMAIN history THEN <<history[time + 1]>> ELSE None>>

get_map_state(history, time) ==
    <<get_map_state_loop(history, 0, time, <<>>),
      IF time + 1 \in DOMAIN history THEN <<history[time + 1]>> ELSE None>>

(***************************************************************************)
(* The DamselflyViewer over a GraphViewer and a MapViewer                  *)
(* (src-tauri/src/damselfly/viewer/damselfly_viewer.rs)                    *)
(***************************************************************************)
\* the updates of a parsed log; an update's timestamp is its index from 0
ViewerEvents ==
    {[kind |-> "Allocation", address |-> 0, size |-> 1],
     [kind |-> "Allocation", address |-> 0, size |-> 2],
     [kind |-> "Allocation", address |-> 2, size |-> 1],
     [kind |-> "Free", address |-> 0, size |-> 1]}
ViewerLogs == UNION {[1..n -> ViewerEvents] : n \in 1..MaxLog}

\* GraphViewer: the highlight is the current one while one is set, the
\* saved one otherwise
GraphViewer(log) == [current_highlight |-> None, saved_highlight |-> 0]
get_highlight(gv) ==
    IF gv.current_highlight = None THEN gv.saved_highlight
    ELSE gv.current_highlight[1]
set_current_highlight(gv, new_highlight) ==
    [gv EXCEPT !.current_highlight = <<new_highlight>>]
set_saved_highlight(gv, new_highlight) ==
    [gv EXCEPT !.saved_highlight = new_highlight]
clear_current_highlight(gv) == [gv EXCEPT !.current_highlight = None]

\* MapViewer: the updates of the log and the timestamp the map is painted at
MapViewer(log) == [current_timestamp |-> 0, update_intervals |-> log]
set_timestamp(mv, timestamp) == [mv EXCEPT !.current_timestamp = timestamp]
get_updates_from(mv, from, to) ==
    SubSeq(mv.update_intervals, from + 1, Min(to + 1, Len(mv.update_intervals)))
get_lowest_address(mv) ==
    LET addresses == {get_start(mv.update_intervals[k]) : k \in DOMAIN mv.update_intervals}
    IN CHOOSE a \in addresses : \A b \in addresses : a <= b
get_highest_address(mv) ==
    LET addresses == {get_end(mv.update_intervals[k]) : k \in DOMAIN mv.update_intervals}
    IN CHOOSE a \in addresses : \A b \in addresses : a >= b
\* every address of the log's range with the kind of the last update up to
\* the timestamp that covers it
paint_map_full(mv) ==
    LET painted == get_updates_from(mv, 0, mv.current_timestamp)
        covering(a) == {k \in DOMAIN painted :
                           get_start(painted[k]) <= a /\ a < get_end(painted[k])}
        last(a) == CHOOSE k \in covering(a) : \A j \in covering(a) : j <= k
    IN [a \in get_lowest_address(mv)..(get_highest_address(mv) - 1) |->
           IF covering(a) = {} THEN "Unused"
           ELSE IF painted[last(a)].kind = "Allocation" THEN "Allocated"
           ELSE "Free"]

\* sync_viewers
sync_viewers(gv, mv) == set_timestamp(mv, get_highlight(gv))

NoMapCall == [op |-> "none", timestamp |-> 0, map |-> <<>>]

\* DamselflyViewer::new over a parsed log, the graph's saved highlight
\* at some timestamp of the log
ViewersStartWith(log, highlight) ==
    /\ graph_viewer = set_saved_highlight(GraphViewer(log), highlight)
    /\ map_viewer = MapViewer(log)
    /\ map_call = NoMapCall
    /\ stats = [pc |-> "idle", left |-> 0, right |-> 0,
                largest_free_block_size |-> 0, free_blocks |-> 0]
ViewersStart ==
    ViewersStartWith(<<[kind |-> "Allocation", address |-> 0, size |-> 1]>>, 0)

Highlights == 0..(Len(map_viewer.update_intervals) - 1)

SetGraphCurrentHighlight ==
    /\ \E new_highlight \in Highlights :
          graph_viewer' = set_current_highlight(graph_viewer, new_highlight)
    /\ map_call' = NoMapCall
    /\ UNCHANGED <<map_viewer, stats>>
    /\ UNCHANGED <<counterVars, cacheVars, hostVars, handlerVars, compressorVars,
                   channelVars>>

SetGraphSavedHighlight ==
    /\ \E new_highlight \in Highlights :
          graph_viewer' = set_saved_highlight(graph_viewer, new_highlight)
    /\ map_call' = NoMapCall
    /\ UNCHANGED <<map_viewer, stats>>
    /\ UNCHANGED <<counterVars, cacheVars, hostVars, handlerVars, compressorVars,
                   channelVars>>

ClearGraphCurrentHighlight ==
    /\ graph_viewer' = clear_current_highlight(graph_viewer)
    /\ map_call' = NoMapCall
    /\ UNCHANGED <<map_viewer, stats>>
    /\ UNCHANGED <<counterVars, cacheVars, hostVars, handlerVars, compressorVars,
                   channelVars>>

SyncViewers ==
    /\ map_viewer' = sync_viewers(graph_viewer, map_viewer)
    /\ map_call' = NoMapCall
    /\ UNCHANGED <<graph_viewer, stats>>
    /\ UNCHANGED <<counterVars, cacheVars, hostVars, handlerVars, compressorVars,
                   channelVars>>

GetMapFull ==
    /\ map_viewer' = sync_viewers(graph_viewer, map_viewer)
    /\ map_call' = [op |-> "get_map_full", timestamp |-> 0,
                    map |-> paint_map_full(map_viewer')]
    /\ UNCHANGED <<graph_viewer, stats>>
    /\ UNCHANGED <<counterVars, cacheVars, hostVars, handlerVars, compressorVars,
                   channelVars>>

GetMapFullAt ==
    /\ \E timestamp \in Highlights :
          /\ graph_viewer' = set_saved_highlight(graph_viewer, timestamp)
          /\ map_call' = [op |-> "get_map_full_at", timestamp |-> timestamp,
                          map |-> paint_map_full(map_viewer)]
    /\ UNCHANGED <<map_viewer, stats>>
    /\ UNCHANGED <<counterVars, cacheVars, hostVars, handlerVars, compressorVars,
                   channelVars>>

\* get_free_blocks_stats, its two nested loops taken one test at a time.
\* The first pass over the merged intervals (lines 69-79) only feeds two
\* locals that line 81 and 82 shadow, and is left out.
\* Lapper::find(left, right): the intervals that start before right and
\* stop after left
live_intervals ==
    compress_to_allocs(get_updates_from(map_viewer, 0, get_highlight(graph_viewer))).value
find(intervals, left, right) ==
    {k \in DOMAIN intervals :
        get_start(intervals[k]) < right /\ get_end(intervals[k]) > left}

GetFreeBlocksStats ==
    /\ stats.pc = "idle"
    /\ stats' = [pc |-> "outer",
                 left |-> get_lowest_address(map_viewer),
                 right |-> get_lowest_address(map_viewer) + 1,
                 largest_free_block_size |-> 0, free_blocks |-> 0]
    /\ UNCHANGED <<graph_viewer, map_viewer, map_call>>
    /\ UNCHANGED <<counterVars, cacheVars, hostVars, handlerVars, compressorVars,
                   channelVars>>

\* while right < highest_address (line 88)
StatsOuterTest ==
    /\ stats.pc = "outer"
    /\ stats' = [stats EXCEPT !.pc =
                     IF stats.right < get_highest_address(map_viewer)
                     THEN "inner" ELSE "returned"]
    /\ UNCHANGED <<graph_viewer, map_viewer, map_call>>
    /\ UNCHANGED <<counterVars, cacheVars, hostVars, handlerVars, compressorVars,
                   channelVars>>

\* while lapper.find(left, right).count() == 0 (line 89) and, past it, the
\* rest of the outer loop's body
StatsInnerTest ==
    /\ stats.pc = "inner"
    /\ stats' =
         IF find(live_intervals, stats.left, stats.right) = {}
         THEN LET right == usize_add(stats.right, 1, build)
              IN IF right < 0 THEN [stats EXCEPT !.pc = "panicked"]
                 ELSE [stats EXCEPT !.right = right]
         ELSE [pc |-> "outer",
               left |-> stats.right,
               right |-> stats.right + 1,
               largest_free_block_size |->
                   Max(stats.largest_free_block_size, stats.right - stats.left),
               free_blocks |-> stats.free_blocks + 1]
    /\ UNCHANGED <<graph_viewer, map_viewer, map_call>>
    /\ UNCHANGED <<counterVars, cacheVars, hostVars, handlerVars, compressorVars,
                   channelVars>>

(***************************************************************************)
(* Specifications.                                                         *)
(***************************************************************************)
\* the counter fed with updates; no cache has been built
InitCounter ==
    CounterStart /\ CacheAbsent /\ HostStart /\ HandlerStart /\ CompressorStart /\ ViewersStart
        /\ ChannelStart("debug")
NextCounter == PushUpdate
SpecCounter == InitCounter /\ [][NextCounter]_vars

\* a cache built over an event list; the counter is not pushed to
InitCache ==
    CounterStart /\ CacheBuilt /\ HostStart /\ HandlerStart /\ CompressorStart /\ ViewersStart
        /\ ChannelStart("debug")
NextCache == QueryCache \/ ChangeBlockSize
SpecCache == InitCache /\ [][NextCache]_vars

\* the command threads of the host
InitHost ==
    CounterStart /\ CacheAbsent /\ HostStart /\ HandlerStart /\ CompressorStart /\ ViewersStart
        /\ ChannelStart("debug")
NextHost ==
    \E t \in Threads :
        \/ Invoke(t)
        \/ BuildViewer(t)
        \/ FinishBuild(t)
        \/ LockViewer(t)
        \/ RunCommand(t)
        \/ FinishRebuild(t)
SpecHost == InitHost /\ [][NextHost]_vars

\* the handlers that work on what an instance returned
InitHandlers ==
    CounterStart /\ CacheAbsent /\ HostStart /\ HandlerStart /\ CompressorStart /\ ViewersStart
        /\ ChannelStart("debug")
NextHandlers == QueryBlock \/ GetOperationLog
SpecHandlers == InitHandlers /\ [][NextHandlers]_vars

\* the compressor applied to update lists
InitCompressor ==
    CounterStart /\ CacheAbsent /\ HostStart /\ HandlerStart /\ CompressorStart /\ ViewersStart
        /\ ChannelStart("debug")
NextCompressor == Compress
SpecCompressor == InitCompressor /\ [][NextCompressor]_vars

\* the channel-fed viewer and the sender of its channel
InitChannel ==
    /\ CounterStart /\ CacheAbsent /\ HostStart /\ HandlerStart /\ CompressorStart /\ ViewersStart
    /\ \E bld \in {"debug", "release"} : ChannelStart(bld)
NextChannel ==
    \/ Send
    \/ HangUp
    \/ Update
    \/ GulpChannel
    \/ LockTimespan
    \/ UnlockTimespan
    \/ ShiftTimespanLeft
    \/ ShiftTimespanRight
    \/ ShiftTimespanToBeginning
    \/ ShiftTimespanToEnd
SpecChannel == InitChannel /\ [][NextChannel]_vars

\* the channel-fed viewer receiving the instructions of a short program
\* that allocates and frees at several addresses
InitViewerMap ==
    /\ CounterStart /\ CacheAbsent /\ HostStart /\ HandlerStart /\ CompressorStart /\ ViewersStart
    /\ \E bld \in {"debug", "release"} :
          ChannelStartWith(bld, [operations |-> Operations,
                                 length |-> MaxInstructions])
NextViewerMap ==
    \/ Send
    \/ HangUp
    \/ Update
    \/ GulpChannel
SpecViewerMap == InitViewerMap /\ [][NextViewerMap]_vars

\* a default-constructed counter fed with updates
InitDefaultCounter ==
    DefaultCounterStart /\ CacheAbsent /\ HostStart /\ HandlerStart
        /\ CompressorStart /\ ViewersStart /\ ChannelStart("debug")
NextDefaultCounter == PushUpdate
SpecDefaultCounter == InitDefaultCounter /\ [][NextDefaultCounter]_vars

\* the viewer's highlight and map operations over a parsed log
InitViewers ==
    /\ CounterStart /\ CacheAbsent /\ HostStart /\ HandlerStart /\ CompressorStart
    /\ ChannelStart("debug")
    /\ \E log \in ViewerLogs : ViewersStartWith(log, 0)
NextViewers ==
    \/ SetGraphCurrentHighlight
    \/ SetGraphSavedHighlight
    \/ ClearGraphCurrentHighlight
    \/ SyncViewers
    \/ GetMapFull
    \/ GetMapFullAt
SpecViewers == InitViewers /\ [][NextViewers]_vars

\* one call of get_free_blocks_stats on a viewer over a parsed log with the
\* highlight at some timestamp of the log; the call, once made, keeps running
InitStats ==
    /\ CounterStart /\ CacheAbsent /\ HostStart /\ HandlerStart /\ CompressorStart
    /\ \E bld \in {"debug", "release"} : ChannelStart(bld)
    /\ \E log \in ViewerLogs : \E highlight \in 0..(Len(log) - 1) :
          ViewersStartWith(log, highlight)
NextStats == GetFreeBlocksStats \/ StatsOuterTest \/ StatsInnerTest
SpecStats == InitStats /\ [][NextStats]_vars /\ WF_vars(NextStats)

(***************************************************************************)
(* Properties of the DistinctBlockCounter.                                 *)
(***************************************************************************)
WellFormedTrace == disjoint_trace /\ in_pool_trace

Covered(b) == \E a \in live : a.address <= b /\ b < a.address + a.size
\* number of maximal contiguous runs of live allocated bytes
Runs == Cardinality({b \in 0..(MaxAddr + MaxSize) : Covered(b) /\ ~Covered(b - 1)})

RECURSIVE SumSizes(_)
SumSizes(S) ==
    IF S = {} THEN 0
    ELSE LET a == CHOOSE x \in S : TRUE IN a.size + SumSizes(S \ {a})

BlockSizes == [k \in DOMAIN free_blocks |-> free_blocks[k][2] - free_blocks[k][1]]

\* C1: with pool bounds and zero padding, after every push of a well-formed
\* in-pool trace get_distinct_blocks is the number of maximal contiguous
\* runs of live allocated bytes, and it is 0 before any push.
C1_DistinctBlocksAreRuns ==
    (WellFormedTrace /\ left_padding = 0 /\ right_padding = 0)
        => distinct_blocks = Runs

\* C2: after every push of a well-formed in-pool trace, free_space plus the
\* sizes of the live allocations is the pool size.
C2_FreeSpacePlusLiveIsPool ==
    (WellFormedTrace /\ pushes >= 1)
        => free_space + SumSizes(live) = PoolStop - PoolStart

\* C3: after every push, free_space is the sum of the sizes of the blocks of
\* the free-block list that push produced.
C3_FreeSpaceIsSumOfBlocks ==
    pushes >= 1 => free_space = SumSeq(BlockSizes)

\* C4: after every push of a well-formed in-pool trace, when the free-block
\* list holds exactly one block the free-segment fragmentation is 0.
C4_OneBlockNoFragmentation ==
    (WellFormedTrace /\ pushes >= 1 /\ Len(free_blocks) = 1)
        => get_free_segment_fragmentation(free_blocks, free_space) = 0

FreeBlocksOrdered ==
    /\ \A k \in DOMAIN free_blocks :
          /\ free_blocks[k][1] < free_blocks[k][2]
          /\ start <= free_blocks[k][1]
          /\ free_blocks[k][2] <= stop
    /\ \A k \in 1..(Len(free_blocks) - 1) :
          /\ free_blocks[k][1] < free_blocks[k + 1][1]
          /\ free_blocks[k][2] <= free_blocks[k + 1][1]

\* C5 as stated: after every push of a trace whose live allocations never
\* overlap, the free-block list is strictly ascending, pairwise disjoint,
\* free of empty blocks and inside [pool_start, pool_stop].
C5_FreeBlocksOrderedAnyDisjointTrace ==
    (disjoint_trace /\ pushes >= 1) => FreeBlocksOrdered

\* C5 amended: the same for a counter with pool bounds and zero padding and
\* a trace that also stays inside the pool.
C5_FreeBlocksOrderedInPool ==
    (WellFormedTrace /\ left_padding = 0 /\ right_padding = 0 /\ pushes >= 1)
        => FreeBlocksOrdered

\* two adjacent live allocations with free bytes on both sides
C5_Witness ==
    /\ WellFormedTrace /\ pushes >= 1
    /\ Len(free_blocks) = 2
    /\ \E a, b \in live : a.address + a.size = b.address

(***************************************************************************)
(* Properties of the MemoryCache.                                          *)
(***************************************************************************)
\* a fresh empty canvas of block size b_size with the first t of the given
\* events painted in order
ColdReplay(events, t, b_size) ==
    LET span == get_canvas_span(events)
    IN render(paint_temporary_updates(
                  MemoryCanvas(span[1], span[2], b_size),
                  SubSeq(events, 1, Min(t, Len(events)))))

Queried == query_result # <<>>
SomeCellUsed(result) ==
    result.ok /\ \E i \in DOMAIN result.value : result.value[i][1] # "Free"

\* C6: query_cache(t) for t in [0, N] returns the cell vector of a cold
\* replay of the first t events, t = 0, t = N and multiples of I included.
C6_QueryEqualsColdReplay ==
    (Queried /\ query_timestamp <= Len(update_intervals))
        => query_result = Ok(ColdReplay(update_intervals, query_timestamp,
                                        requested_block_size))

\* a query at t = N, a multiple of the interval, with more than one snapshot
C6_Witness ==
    /\ Queried
    /\ query_timestamp = Len(update_intervals)
    /\ query_timestamp % interval = 0
    /\ Len(memory_cache_snapshots) >= 2
    /\ SomeCellUsed(query_result)

\* C7: a query past the last event is clamped: it reads snapshot
\* k = min(floor(t / I), last snapshot index), returns Ok, and returns what
\* the query at the final timestamp N returns.
C7_QueryBeyondEndIsClamped ==
    (Queried /\ query_timestamp > Len(update_intervals))
        => LET k == Min(query_timestamp \div interval,
                        Len(memory_cache_snapshots) - 1)
           IN /\ query_result.ok
              /\ query_result = Ok(render_this_many(memory_cache_snapshots[k + 1],
                                                    query_timestamp - k * interval))
              /\ query_result = query_cache(memory_cache_snapshots, interval,
                                            Len(update_intervals))

\* a query past the end whose floor(t / I) names no snapshot
C7_Witness ==
    /\ Queried
    /\ query_timestamp > Len(update_intervals)
    /\ query_timestamp \div interval > Len(memory_cache_snapshots) - 1
    /\ SomeCellUsed(query_result)

\* C8: change_block_size(B) rebuilds every snapshot with block size B and
\* leaves the event list and the cache interval alone; the number of
\* snapshots is unchanged and every query_cache(t), t in [0, N], is the cold
\* replay of the first t events at block size B.
C8_ChangeBlockSizeRebuilds ==
    [][ChangeBlockSize =>
         /\ update_intervals' = update_intervals
         /\ interval' = interval
         /\ Len(memory_cache_snapshots') = Len(memory_cache_snapshots)
         /\ \A k \in DOMAIN memory_cache_snapshots' :
               memory_cache_snapshots'[k].canvas.block_size = requested_block_size'
         /\ \A t \in 0..Len(update_intervals) :
               query_cache(memory_cache_snapshots', interval', t)
                   = Ok(ColdReplay(update_intervals, t, requested_block_size'))]_vars

\* a query answered after a rebuild to a different block size
C8_Witness ==
    /\ rebuilt
    /\ Queried
    /\ Len(memory_cache_snapshots) >= 2
    /\ requested_block_size = 2
    /\ SomeCellUsed(query_result)

(***************************************************************************)
(* Properties of the host commands.                                        *)
(***************************************************************************)
\* thread t leaves the body of a viewer command in this step
Returns(t) == pc[t] \in {"locked", "rebuilding"} /\ pc'[t] = "idle"

\* C9: every command that reads or changes the viewer, run while the shared
\* viewer is None, returns Err("Viewer is not initialised") without
\* panicking and leaves the viewer None; while the viewer is None the mutex
\* is not poisoned, so the lock().unwrap() of such a command does not panic
\* either.
C9_NoViewerIsAnError ==
    [][/\ viewer = None => ~poisoned
       /\ \A t \in Threads :
             (Returns(t) /\ cmd[t].name \in ViewerCommands /\ viewer = None)
                 => /\ ret'[t] = NotInitialised
                    /\ viewer' = None
                    /\ ~poisoned']_vars

\* two commands have returned the error and no viewer is loaded
C9_Witness ==
    /\ viewer = None
    /\ \A t \in Threads : ret[t] = NotInitialised

Generation(v) == IF v = None THEN 0 ELSE v.gen

\* C10: the shared viewer starts as None, only initialise_viewer installs or
\* replaces a viewer, and once it is Some it is Some in every later state.
C10_ViewerLifecycle ==
    [][/\ loads = 0 => viewer = None
       /\ Generation(viewer') # Generation(viewer)
              => \E t \in Threads : Returns(t) /\ cmd[t].name = "initialise_viewer"
       /\ viewer # None => viewer' # None]_vars

\* a second viewer has replaced the first and commands have run on it
C10_Witness ==
    /\ viewer # None
    /\ viewer.gen = 2
    /\ viewer.snapshots[0] # LoadedBlockSize

\* the command threads inside a handler body, after lock() returned
InBody == {t \in Threads : pc[t] \in {"locked", "rebuilding"}}

\* C11: set_block_size holds the viewer lock for the whole cache rebuild:
\* at most one command thread is inside a handler body and it is the lock
\* holder, so no query runs between the start and the end of a rebuild; the
\* snapshots differ from the requested block size only while a rebuild is
\* running; a finished set_block_size(B) leaves snapshots built with B, and
\* a map query returns snapshots built with the block size set last.
C11_RebuildHoldsLock ==
    [][/\ \A t, u \in InBody : t = u
       /\ \A t \in InBody : lock_holder = t
       /\ (viewer # None /\ \A t \in Threads : pc[t] # "rebuilding")
              => viewer.snapshots = viewer.block_size
       /\ \A t \in Threads :
             (Returns(t) /\ pc[t] = "rebuilding")
                 => viewer'.snapshots[cmd[t].damselfly_instance]
                        = cmd[t].new_block_size
       /\ \A t \in Threads :
             (Returns(t) /\ cmd[t].name \in MapCommands /\ ret'[t].ok)
                 => ret'[t].value[4]
                        = viewer.block_size[cmd[t].damselfly_instance]]_vars

\* a map query has returned snapshots built with a changed block size, and
\* another rebuild is running while a map query waits for the lock
C11_Witness ==
    \E t, u \in Threads :
        /\ pc[t] = "rebuilding"
        /\ pc[u] = "lock"
        /\ cmd[u].name \in MapCommands
        /\ viewer.snapshots[0] # LoadedBlockSize
        /\ viewer.block_size[0] # viewer.snapshots[0]

\* C12: once a viewer is loaded, every command that takes the viewer lock
\* returns a result and leaves the lock usable: no command thread panics
\* and the mutex is never poisoned, whatever the arguments.
C12_LockStaysUsable ==
    viewer # None => /\ ~poisoned
                     /\ \A t \in Threads : ret[t] # Panicked

\* C13: loading is all-or-nothing: the shared viewer is None or a complete
\* viewer, never a partly built one; initialise_viewer installs the viewer
\* its own thread built, complete, in the one step in which it holds the
\* lock, so of two overlapping calls the one that takes the lock last
\* leaves its viewer; a query returns data of the complete viewer that was
\* in the mutex when the query held the lock.
C13_LoadIsAllOrNothing ==
    [][/\ viewer # None => viewer.complete
       /\ \A t \in Threads :
             (Returns(t) /\ cmd[t].name = "initialise_viewer")
                 => /\ built[t] # None
                    /\ built[t].complete
                    /\ viewer' = built[t]
       /\ \A t \in Threads :
             (Returns(t) /\ cmd[t].name \in InstanceCommands /\ ret'[t].ok)
                 => /\ ret'[t].value[2] = Generation(viewer)
                    /\ ret'[t].value[3]
                    /\ viewer' = viewer]_vars

\* two initialise_viewer calls overlapped: the viewer built second was
\* installed first and the viewer built first replaced it
C13_Witness ==
    /\ loads = 2
    /\ viewer # None
    /\ viewer.gen = 1
    /\ ~poisoned
    /\ \A t \in Threads : pc[t] = "idle" /\ ret[t] = Ok("unit")

(***************************************************************************)
(* Properties of query_block and get_operation_log.                        *)
(***************************************************************************)
Rearrangements(n) == {p \in [1..n -> 1..n] : \A i, j \in 1..n : p[i] = p[j] => i = j}

\* out is input rearranged by a permutation that keeps the relative order
\* of events with equal timestamps
StableRearrangement(input, out) ==
    /\ Len(out) = Len(input)
    /\ \E p \in Rearrangements(Len(input)) :
          /\ \A k \in DOMAIN out : out[k] = input[p[k]]
          /\ \A i, j \in DOMAIN out :
                (i < j /\ out[i].timestamp = out[j].timestamp) => p[i] < p[j]

\* C14: query_block and query_block_realtime return a permutation of the
\* events the instance returned, in non-decreasing timestamp order, and
\* events with equal timestamps keep the relative order they had.
C14_QueryBlockStableAscending ==
    handler_call.name \in {"query_block", "query_block_realtime"}
        => /\ handler_result.ok
           /\ \A k \in 1..(Len(handler_result.value) - 1) :
                 handler_result.value[k].timestamp
                     <= handler_result.value[k + 1].timestamp
           /\ StableRearrangement(handler_call.updates, handler_result.value)

\* C15: get_operation_log clamps the padding compensation at zero: for
\* every event and every padding the command returns, and the displayed
\* address and size are the stored ones minus the padding, 0 where the
\* padding exceeds the value.
C15_PaddingClampsAtZero ==
    handler_call.name = "get_operation_log"
        => /\ handler_result.ok
           /\ Len(handler_result.value) = Len(handler_call.history)
           /\ \A k \in DOMAIN handler_call.history :
                 /\ handler_result.value[k].address
                        = Max(0, handler_call.history[k].address
                                     - handler_call.left_padding)
                 /\ handler_result.value[k].size
                        = Max(0, handler_call.history[k].size
                                     - handler_call.right_padding)

\* C16: padding round trip: an event loaded with its address shifted by
\* -left_pad and its size extended by +right_pad is shown by
\* get_operation_log, called with the same paddings, with the address and
\* the size it has in the trace.
C16_PaddingRoundTrip ==
    (/\ handler_call.name = "get_operation_log"
     /\ handler_call.load_left = handler_call.left_padding
     /\ handler_call.load_right = handler_call.right_padding)
        => /\ handler_result.ok
           /\ handler_result.value = handler_call.trace

(***************************************************************************)
(* Properties of the UpdateQueueCompressor.                                *)
(***************************************************************************)
\* the allocations at address live after the first n updates: a Free with
\* no live allocation at its address changes nothing
RECURSIVE LiveAt(_, _, _)
LiveAt(updates, address, n) ==
    IF n = 0 THEN 0
    ELSE LET before == LiveAt(updates, address, n - 1)
         IN IF updates[n].address # address THEN before
            ELSE IF updates[n].kind = "Allocation" THEN before + 1
            ELSE Max(0, before - 1)

\* the Frees among the first n updates that cancelled an allocation
RECURSIVE Cancelling(_, _, _)
Cancelling(updates, address, n) ==
    IF n = 0 THEN 0
    ELSE Cancelling(updates, address, n - 1)
         + (IF /\ updates[n].address = address
               /\ updates[n].kind = "Free"
               /\ LiveAt(updates, address, n - 1) > 0
            THEN 1 ELSE 0)

\* the position of update i among the allocations at its address
AllocationRank(updates, i) ==
    Cardinality({j \in 1..i : /\ updates[j].kind = "Allocation"
                              /\ updates[j].address = updates[i].address})

\* the allocations no Free cancels, in input order: each cancelling Free
\* takes the oldest allocation at its address that is still there
RECURSIVE Surviving(_, _)
Surviving(updates, i) ==
    IF i > Len(updates) THEN <<>>
    ELSE (IF /\ updates[i].kind = "Allocation"
             /\ AllocationRank(updates, i)
                    > Cancelling(updates, updates[i].address, Len(updates))
          THEN <<updates[i]>> ELSE <<>>)
         \o Surviving(updates, i + 1)

\* C17: compress_to_allocs returns only Allocation entries: exactly the
\* input allocations that no later Free of the same address cancels, in
\* input order, each Free with a live allocation at its address cancelling
\* exactly one allocation.
C17_CompressToAllocsKeepsUncancelled ==
    compress_call.function = "compress_to_allocs"
        => /\ compress_result.ok
           /\ \A k \in DOMAIN compress_result.value :
                 compress_result.value[k].kind = "Allocation"
           /\ compress_result.value = Surviving(compress_call.updates, 1)

\* two allocations at one address, of which the Free cancelled the first
C17_Witness ==
    /\ compress_call.function = "compress_to_allocs"
    /\ compress_call.updates =
           <<[kind |-> "Allocation", address |-> 0, size |-> 1],
             [kind |-> "Allocation", address |-> 0, size |-> 2],
             [kind |-> "Free", address |-> 0, size |-> 1]>>
    /\ compress_result = Ok(<<[kind |-> "Allocation", address |-> 0, size |-> 2]>>)

\* C18: in each of the three compress functions a Free whose address
\* matches no accumulated allocation is skipped: the function returns
\* normally, with the list it would return without that Free.
C18_UnmatchedFreeIsSkipped ==
    compress_call.function \in CompressFunctions
        => /\ compress_result.ok
           /\ compress_result.value = Surviving(compress_call.updates, 1)

(***************************************************************************)
(* Properties of the default-constructed DistinctBlockCounter.             *)
(***************************************************************************)
\* C19: for a default-constructed counter (no pool bounds, no sentinel
\* edges), after every push of a well-formed trace that leaves k >= 1
\* distinct blocks, get_free_blocks has exactly k - 1 entries, one for each
\* gap between consecutive distinct blocks.
C19_DefaultCounterGaps ==
    (disjoint_trace /\ ~manually_track_memory_bounds /\ Runs >= 1)
        => /\ distinct_blocks = Runs
           /\ Len(free_blocks) = Runs - 1
           /\ \A k \in DOMAIN free_blocks :
                 /\ free_blocks[k][1] < free_blocks[k][2]
                 /\ ~Covered(free_blocks[k][1]) /\ Covered(free_blocks[k][1] - 1)
                 /\ Covered(free_blocks[k][2])
                 /\ \A b \in free_blocks[k][1]..(free_blocks[k][2] - 1) : ~Covered(b)

\* three pushes left two adjacent allocations and a third one apart: two
\* distinct blocks, one gap
C19_Witness ==
    /\ disjoint_trace /\ ~manually_track_memory_bounds
    /\ pushes = 3
    /\ Runs = 2
    /\ Len(free_blocks) = 1
    /\ \E a, b \in live : a.address + a.size = b.address

(***************************************************************************)
(* Properties of the channel-fed DamselflyViewer.                          *)
(***************************************************************************)
\* lock_timespan returned
Locked == LockTimespan /\ ~viewer_panicked'
\* update received an instruction and returned
Updated == Update /\ instruction_rx # <<>> /\ ~viewer_panicked'

ShiftedRight(u) ==
    ViewerStep(shift_timespan_right(timespan, timespan_is_unlocked,
                                    memory_usage_snapshots, u, build),
               memory_usage_snapshots, instruction_rx, FALSE, TRUE, FALSE, <<>>, FALSE)
\* shift_timespan_left(u) ran
ShiftedLeft(u) ==
    ViewerStep(shift_timespan_left(timespan, timespan_is_unlocked,
                                   memory_usage_snapshots, u, build),
               memory_usage_snapshots, instruction_rx, FALSE, TRUE, FALSE,
               <<timespan, u>>, FALSE)

\* shifting span by u spans to the left and back stays clear of index 0 and
\* of the last snapshot index
ClearOfBothEnds(span, u, len) ==
    /\ span[2] > span[1]
    /\ span[1] - u * (span[2] - span[1]) > 0
    /\ span[2] < len - 1

\* C21: shift_timespan_left(u) followed by shift_timespan_right(u) restores
\* the time span whenever neither shift reaches index 0 or the last
\* snapshot index, for every span, spans shorter than DEFAULT_TIMESPAN
\* included.
C21_LeftThenRightRestores ==
    [][\A u \in 1..MaxUnits :
          (/\ shifted_left # <<>>
           /\ shifted_left[2] = u
           /\ ClearOfBothEnds(shifted_left[1], u, memory_usage_snapshots)
           /\ ShiftedRight(u))
          => /\ ~viewer_panicked'
             /\ timespan' = shifted_left[1]]_vars

\* C22: both shifts keep the width of the window and clamp it to the data:
\* shift_timespan_left(u) leaves [max(0, left - u*span), that + span];
\* shift_timespan_right leaves timespan.1 at most the last snapshot index
\* and timespan.0 = timespan.1 - span; neither underflows, whatever the
\* number of snapshots.
C22_ShiftsKeepWidthAndClamp ==
    [][\A u \in 1..MaxUnits :
          LET left == timespan[1]
              right == timespan[2]
              span == right - left
          IN right > left
             => /\ ShiftedLeft(u)
                   => /\ ~viewer_panicked'
                      /\ timespan'[1] = Max(0, left - u * span)
                      /\ timespan'[2] = timespan'[1] + span
                /\ ShiftedRight(u)
                   => /\ ~viewer_panicked'
                      /\ timespan'[2] <= memory_usage_snapshots - 1
                      /\ timespan'[1] = timespan'[2] - span]_vars

(***************************************************************************)
(* Properties of one push_update.                                          *)
(***************************************************************************)
\* push_update(update) ran
Pushed(update) == pushes < MaxPushes /\ push_update(update) /\ TrackTrace(update)

\* the edges of an update and whether they meet edges of the sets S (starts)
\* and E (ends)
Lo(update) == update.address - left_padding
Hi(update) == update.address + update.size + right_padding
BothAttached(update, S, E) == Lo(update) \in E /\ Hi(update) \in S
NoneAttached(update, S, E) == Lo(update) \notin E /\ Hi(update) \notin S

C24_FreeDelta ==
    [][\A update \in Updates :
          (update.kind = "Free" /\ Pushed(update))
          => /\ distinct_blocks' = distinct_blocks +
                    (IF BothAttached(update, starts_set, ends_set) THEN 1
                     ELSE IF NoneAttached(update, starts_set, ends_set) THEN -1
                     ELSE 0)
             /\ starts_set' = starts_set \ {Lo(update)}
             /\ starts_tree' = starts_tree \ {Lo(update)}
             /\ ends_set' = ends_set \ {Hi(update)}
             /\ ends_tree' = ends_tree \ {Hi(update)}]_vars

\* C24, amended: the change of distinct_blocks is +1, -1 or 0 as above, but
\* the counter stops at 0: a -1 applied to 0 leaves 0.
C24_FreeDeltaSaturating ==
    [][\A update \in Updates :
          (update.kind = "Free" /\ Pushed(update))
          => /\ distinct_blocks' = Max(0, distinct_blocks +
                    (IF BothAttached(update, starts_set, ends_set) THEN 1
                     ELSE IF NoneAttached(update, starts_set, ends_set) THEN -1
                     ELSE 0))
             /\ starts_set' = starts_set \ {Lo(update)}
             /\ starts_tree' = starts_tree \ {Lo(update)}
             /\ ends_set' = ends_set \ {Hi(update)}
             /\ ends_tree' = ends_tree \ {Hi(update)}]_vars

\* the last push was a Free with both edges attached that raised
\* distinct_blocks by one
C24_Witness ==
    /\ before_push # <<>>
    /\ before_push.update.kind = "Free"
    /\ BothAttached(before_push.update, before_push.starts_set, before_push.ends_set)
    /\ distinct_blocks = before_push.distinct_blocks + 1
    /\ Lo(before_push.update) \notin starts_set
    /\ Hi(before_push.update) \notin ends_set

\* the maximal non-empty ranges [a, b) of the pool no live allocation covers
MaximalGaps ==
    {g \in (PoolStart..PoolStop) \X (PoolStart..PoolStop) :
        /\ g[1] < g[2]
        /\ \A b \in g[1]..(g[2] - 1) : ~Covered(b)
        /\ g[1] = PoolStart \/ Covered(g[1] - 1)
        /\ g[2] = PoolStop \/ Covered(g[2])}

\* C25: for a counter with pool bounds and a well-formed in-pool trace, the
\* free-block list after each push is exactly the set of maximal non-empty
\* ranges of [pool_start, pool_stop) that no live allocation covers: gaps at
\* the pool boundaries are included, no block has size 0, adjacent live
\* allocations give no block between them.
C25_FreeBlocksAreMaximalGaps ==
    (WellFormedTrace /\ pushes >= 1)
        => /\ {free_blocks[k] : k \in DOMAIN free_blocks} = MaximalGaps
           /\ Len(free_blocks) = Cardinality(MaximalGaps)

\* two adjacent live allocations in the middle of the pool: a gap at each
\* pool boundary and none between the two
C25_Witness ==
    /\ WellFormedTrace /\ pushes >= 2
    /\ \E a, b \in live : a.address + a.size = b.address
    /\ Len(free_blocks) = 2
    /\ free_blocks[1][1] = PoolStart
    /\ free_blocks[2][2] = PoolStop

(***************************************************************************)
(* Invariants of the edge sets.                                            *)
(***************************************************************************)
\* C26: the sentinel edges survive every push: for a counter constructed
\* with pool bounds, in every state reached by pushing in-pool allocations
\* and their matching frees, pool_stop is in starts_set and starts_tree and
\* pool_start is in ends_set and ends_tree.
C26_SentinelsSurvive ==
    in_pool_trace
        => /\ PoolStop \in starts_set /\ PoolStop \in starts_tree
           /\ PoolStart \in ends_set /\ PoolStart \in ends_tree

\* an allocation that ended at the end of the pool has just been freed: its
\* end edge, equal to the sentinel of the starts sets, was removed from the
\* ends sets
C26_Witness ==
    /\ WellFormedTrace
    /\ before_push # <<>>
    /\ before_push.update.kind = "Free"
    /\ Hi(before_push.update) = PoolStop
    /\ PoolStop \in before_push.ends_set
    /\ PoolStop \notin ends_set
    /\ PoolStop \in starts_set

\* C27: starts_set and ends_set have the same number of elements after
\* construction and after every push_update, for every sequence of pushed
\* events.
C27_EdgeSetsSameSize == Cardinality(starts_set) = Cardinality(ends_set)

\* C27, amended: the two sets have the same number of elements after
\* construction and after every push of a well-formed in-pool trace.
C27_EdgeSetsSameSizeWellFormed ==
    WellFormedTrace => Cardinality(starts_set) = Cardinality(ends_set)

\* a well-formed trace pushed two allocations and freed one of them
C27_Witness ==
    /\ WellFormedTrace
    /\ before_push # <<>>
    /\ before_push.update.kind = "Free"
    /\ Cardinality(live) = 1
    /\ Cardinality(starts_set) = 2
    /\ Cardinality(before_push.starts_set) = 3

\* C28: the ordered sets mirror the hash sets: after construction and after
\* every push_update of any event sequence, starts_tree holds exactly the
\* elements of starts_set and ends_tree those of ends_set.
C28_TreesMirrorSets == starts_tree = starts_set /\ ends_tree = ends_set

\* three pushes, not a well-formed trace, that left edges in the sets
C28_Witness ==
    /\ pushes = 3
    /\ ~disjoint_trace
    /\ Cardinality(starts_tree) >= 3
    /\ Cardinality(ends_tree) >= 2

\* the last push was the Allocation that update frees, and it overlapped no
\* live allocation
FreesLastAllocation(update) ==
    /\ update.kind = "Free"
    /\ before_push # <<>>
    /\ before_push.update =
           [kind |-> "Allocation", address |-> update.address, size |-> update.size]

\* C29: from any reachable counter state, pushing an Allocation x that
\* overlaps no live allocation (x at the pool start, at the pool end or
\* covering the whole pool included) and then the matching Free of x
\* restores distinct_blocks, the four edge sets and the free-block list to
\* their values before the Allocation.
C29_AllocFreeRoundTrip ==
    [][\A update \in Updates :
          (FreesLastAllocation(update) /\ InPool(update) /\ Pushed(update))
          => /\ distinct_blocks' = before_push.distinct_blocks
             /\ starts_set' = before_push.starts_set
             /\ ends_set' = before_push.ends_set
             /\ starts_tree' = before_push.starts_tree
             /\ ends_tree' = before_push.ends_tree
             /\ free_blocks' = before_push.free_blocks]_vars

(***************************************************************************)
(* The number of snapshots of the cache.                                   *)
(***************************************************************************)
\* C30: MemoryCache construction over N >= 1 events with cache interval I
\* stores one snapshot S_k for every k = 0, 1, ..., ceil(N / I), that is
\* ceil(N / I) + 1 snapshots.
C30_SnapshotCount ==
    Len(update_intervals) >= 1
        => Len(memory_cache_snapshots) = CeilDiv(Len(update_intervals), interval) + 1

\* C30, amended: one snapshot for every k = 0, 1, ..., floor((N - 1) / I),
\* that is ceil(N / I) snapshots.
C30_SnapshotCountCeil ==
    Len(update_intervals) >= 1
        => /\ Len(memory_cache_snapshots)
                  = ((Len(update_intervals) - 1) \div interval) + 1
           /\ Len(memory_cache_snapshots) = CeilDiv(Len(update_intervals), interval)

\* a cache built over a number of events that the interval divides, with
\* more than one snapshot
C30_Witness ==
    /\ Len(update_intervals) >= 2
    /\ interval < Len(update_intervals)
    /\ Len(update_intervals) % interval = 0
    /\ Len(memory_cache_snapshots) = Len(update_intervals) \div interval

(***************************************************************************)
(* The stored snapshots.                                                   *)
(***************************************************************************)
\* the canvas before any event, at the block size of the last (re)build
EmptyCanvas ==
    LET span == get_canvas_span(update_intervals)
    IN MemoryCanvas(span[1], span[2], requested_block_size)

\* C31: every stored snapshot S_k is a value of its own: its canvas is the
\* fold of exactly the events with index < k*I, its pending events are the
\* events with index in [k*I, (k+1)*I) in ascending order, and neither
\* changes when later buckets are folded into the running canvas or when
\* query_cache is called; asking the answered query again gives the same
\* result.
C31_SnapshotsAreIndependent ==
    /\ \A k \in DOMAIN memory_cache_snapshots :
          LET first == (k - 1) * interval
              last == Min(k * interval, Len(update_intervals))
          IN /\ memory_cache_snapshots[k].canvas =
                    paint_temporary_updates(EmptyCanvas,
                                            SubSeq(update_intervals, 1, first))
             /\ memory_cache_snapshots[k].updates =
                    SubSeq(update_intervals, first + 1, last)
    /\ Queried
          => query_result =
                 query_cache(memory_cache_snapshots, interval, query_timestamp)

\* a query was answered by a cache of two snapshots or more whose first
\* bucket painted the canvas
C31_Witness ==
    /\ Queried /\ query_timestamp >= 1
    /\ Len(memory_cache_snapshots) >= 2
    /\ memory_cache_snapshots[1].updates # <<>>
    /\ memory_cache_snapshots[1].canvas = EmptyCanvas
    /\ memory_cache_snapshots[2].canvas # EmptyCanvas

(***************************************************************************)
(* The compress functions compared.                                        *)
(***************************************************************************)
\* every Free finds an allocation of its address in the accumulated list
EveryFreeMatched(updates) ==
    \A n \in DOMAIN updates :
        updates[n].kind = "Free" => LiveAt(updates, updates[n].address, n - 1) > 0

\* C32: compress_to_allocs and compress_ref_to_allocs return the same list
\* for every input in which each Free has an allocation of the same address
\* still present in the accumulated list when it is processed.
C32_CompressFunctionsAgree ==
    (/\ compress_call.function \in {"compress_to_allocs", "compress_ref_to_allocs"}
     /\ EveryFreeMatched(compress_call.updates))
        => /\ compress_result.ok
           /\ compress_result = compress_to_allocs(compress_call.updates)
           /\ compress_result = compress_ref_to_allocs(compress_call.updates)

\* compress_ref_to_allocs on two allocations at one address and one Free
C32_Witness ==
    /\ compress_call.function = "compress_ref_to_allocs"
    /\ EveryFreeMatched(compress_call.updates)
    /\ Len(compress_call.updates) = 3
    /\ compress_call.updates[3].kind = "Free"
    /\ compress_call.updates[1].address = compress_call.updates[2].address
    /\ compress_result.ok /\ Len(compress_result.value) = 1

\* the allocations live after the first n updates under the pairing rule: an
\* Allocation replaces a live one at its address, a Free cancels the live
\* one at its address
RECURSIVE LiveUnderPairing(_, _)
LiveUnderPairing(updates, n) ==
    IF n = 0 THEN {}
    ELSE LET others == {a \in LiveUnderPairing(updates, n - 1) :
                           a.address # updates[n].address}
         IN IF updates[n].kind = "Allocation" THEN others \cup {updates[n]}
            ELSE others

\* C33: the result of compress_to_allocs is the set of allocations live at
\* the end of the trace under the pairing rule: at most one allocation per
\* address, a second Allocation at a still-live address replaces the
\* earlier one, a Free cancels the most recent Allocation at its address.
C33_CompressToAllocsIsLiveSet ==
    compress_call.function = "compress_to_allocs"
        => /\ compress_result.ok
           /\ {compress_result.value[k] : k \in DOMAIN compress_result.value}
                  = LiveUnderPairing(compress_call.updates,
                                     Len(compress_call.updates))
           /\ \A j, k \in DOMAIN compress_result.value :
                 compress_result.value[j].address = compress_result.value[k].address
                     => j = k

(***************************************************************************)
(* The window of the channel-fed DamselflyViewer.                          *)
(***************************************************************************)
\* C34: timespan.1 > timespan.0 in every reachable state, after any
\* sequence of update, gulp_channel, the four shifts, lock_timespan and
\* unlock_timespan, for any number of received instructions, none
\* included; so the debug assertions of the shifts never fail.
C34_WindowIsNeverEmpty ==
    /\ timespan[2] > timespan[1]
    /\ ~debug_assert_fails(timespan[1], timespan[2], build)

(***************************************************************************)
(* What update does to the viewer.                                         *)
(***************************************************************************)
\* C35: when the instruction channel has hung up (recv returns Err),
\* update changes nothing: the memory map, the usage snapshots, the
\* operation history, the time span and the lock flag are as before; when
\* an instruction is received, exactly one usage snapshot and one
\* operation-history entry are appended, so the two sequences always have
\* the same length.
C35_UpdateFrame ==
    [][/\ (Update /\ instruction_rx = <<>>)
          => UNCHANGED <<memory_map, memory_usage_snapshots, operation_history,
                         timespan, timespan_is_unlocked>>
       /\ (Update /\ instruction_rx # <<>>)
          => /\ memory_usage_snapshots' = memory_usage_snapshots + 1
             /\ operation_history' =
                    Append(operation_history, Head(instruction_rx))
       /\ Len(operation_history') = memory_usage_snapshots']_vars

\* two instructions were received, the sender hung up, and the last update
\* found the channel hung up
C35_Witness ==
    /\ found_hung_up
    /\ hung_up /\ instruction_rx = <<>>
    /\ Len(operation_history) = 2
    /\ memory_usage_snapshots = 2
    /\ timespan[2] > DEFAULT_TIMESPAN

(***************************************************************************)
(* Properties of the DamselflyViewer over a GraphViewer and a MapViewer.   *)
(***************************************************************************)
\* C36: get_map_full_at(t) paints the map at timestamp t: right after the
\* call the map viewer's timestamp is t, and the map it returned is the one
\* that set_graph_saved_highlight(t) followed by get_map_full() returns.
C36_GetMapFullAtPaintsAtTimestamp ==
    map_call.op = "get_map_full_at" =>
        /\ map_viewer.current_timestamp = map_call.timestamp
        /\ map_call.map =
               paint_map_full(
                   sync_viewers(set_saved_highlight(graph_viewer, map_call.timestamp),
                                map_viewer))

\* C37: a call of get_free_blocks_stats returns, whatever the log and the
\* highlight.
C37_GetFreeBlocksStatsTerminates ==
    (stats.pc # "idle") ~> (stats.pc = "returned")

(***************************************************************************)
(* The channel-fed DamselflyViewer: the window and the recorded data.      *)
(***************************************************************************)
\* C38: while the timespan is locked the window stays inside the recorded
\* data: timespan.1 is at most the number of usage snapshots, and
\* get_memory_usage_view finds a snapshot for every index of the window.
C38_WindowInsideData ==
    (~viewer_panicked /\ ~timespan_is_unlocked) =>
        /\ timespan[2] <= memory_usage_snapshots
        /\ get_memory_usage_view(timespan, memory_usage_snapshots).ok

\* C39: once n >= 1 instructions are received, get_latest_map_state and
\* get_map_state(n - 1) return the same map and the same last operation.
C39_LatestMapIsReplayedMap ==
    (~viewer_panicked /\ memory_usage_snapshots >= 1) =>
        get_latest_map_state(memory_map, operation_history, memory_usage_snapshots)
            = get_map_state(operation_history, memory_usage_snapshots - 1)

\* three instructions received, the last one writing an address that an
\* earlier one wrote
C39_Witness ==
    /\ ~viewer_panicked
    /\ memory_usage_snapshots = MaxInstructions
    /\ Len(operation_history) = MaxInstructions
    /\ \E k \in 1..(MaxInstructions - 1) :
          /\ operation_history[k].address = operation_history[MaxInstructions].address
          /\ operation_history[k].kind # operation_history[MaxInstructions].kind

(***************************************************************************)
(* MemoryCache: query_cache on a cache built over at least one event.      *)
(***************************************************************************)
\* C40: a cache built over N >= 1 events with an interval I >= 1 has at
\* least one snapshot, and for every timestamp t the selected index k is at
\* most floor(t / I), the replay offset t - k * I does not underflow, and
\* query_cache(t) returns Ok.
C40_QueryCacheNeverFails ==
    (Len(update_intervals) >= 1 /\ interval >= 1) =>
        /\ Len(memory_cache_snapshots) >= 1
        /\ \A t \in 0..(Len(update_intervals) + MaxBeyond) :
              /\ cache_index(memory_cache_snapshots, interval, t) <= t \div interval
              /\ replay_offset(memory_cache_snapshots, interval, t) >= 0
              /\ query_cache(memory_cache_snapshots, interval, t).ok
        /\ Queried => query_result.ok

\* a query answered from the last snapshot, the index clamped below
\* floor(t / I) and the replay running over more than a whole interval
C40_Witness ==
    /\ Queried /\ query_result.ok
    /\ cache_index(memory_cache_snapshots, interval, query_timestamp)
           = Len(memory_cache_snapshots) - 1
    /\ cache_index(memory_cache_snapshots, interval, query_timestamp)
           < query_timestamp \div interval
    /\ replay_offset(memory_cache_snapshots, interval, query_timestamp) > interval

====
